---- MODULE Spec2Model ----
(***************************************************************************)
(* The routing page and the rate-limits page of the management console,    *)
(* with the remote store they reconcile against.                           *)
(*                                                                         *)
(* One page component is mounted at a time; `page` names it.  The useState *)
(* cells that carry the same name in both components (loading, error,      *)
(* saving, modalOpen, formData, authIdInput) are one variable here, read   *)
(* by the mounted page only.                                               *)
(*                                                                         *)
(* Strings are sequences of one-character strings, so that trim() does     *)
(* what String.prototype.trim does.  Array indices are 0-based as in the   *)
(* source; element i of an array is arr[i + 1] here.                       *)
(*                                                                         *)
(* A request lives in `inflight` from the call of the api function until   *)
(* its promise settles in the page: phase "sent" until the remote store    *)
(* has served it, then "ok" or "fail" until the awaiting handler resumes.  *)
(***************************************************************************)
EXTENDS Integers, Sequences, FiniteSets, TLC

VARIABLES
    page,                 \* the mounted page component
    connectionStatus,     \* useAuthStore: state.connectionStatus
    notification,         \* useNotificationStore: type of the notification last shown
    loading, error, saving,
    strategy, rules, bindings,
    modalOpen, editingIndex, formData, modelInput, orderInput,
    bindingModalOpen, editingBindingIndex, bindingFormData, authIdInput,
    configs, rateLimiting, usage,
    editingKey, providerInput, statusCodeInput, persistencePathInput,
    remote,               \* the authoritative store behind the REST API
    inflight,             \* requests whose promise has not settled in the page
    issued,               \* number of requests the operator's actions have issued
    budget,               \* bound: the number of requests the operator issues in the session
    loaded,               \* history: a load has succeeded since the page was mounted
    opened,               \* history: the row the open modal was opened on
    last                  \* history: the handler step taken last

pageVars    == <<loading, error, saving>>
routingData == <<strategy, rules, bindings>>
ruleModal   == <<modalOpen, editingIndex, formData, modelInput, orderInput>>
bindModal   == <<bindingModalOpen, editingBindingIndex, bindingFormData, authIdInput>>

\* the cells only the rate-limits page has, and those only the routing page has
rateLimitsData == <<configs, rateLimiting, usage>>
rateLimitsOnly == <<configs, rateLimiting, usage,
                    editingKey, providerInput, statusCodeInput, persistencePathInput>>
routingOnly    == <<strategy, rules, bindings, editingIndex, modelInput, orderInput,
                    bindingModalOpen, editingBindingIndex, bindingFormData>>

vars == <<page, connectionStatus, notification, loading, error, saving,
          strategy, rules, bindings,
          modalOpen, editingIndex, formData, modelInput, orderInput,
          bindingModalOpen, editingBindingIndex, bindingFormData, authIdInput,
          configs, rateLimiting, usage,
          editingKey, providerInput, statusCodeInput, persistencePathInput,
          remote, inflight, issued, budget, loaded, opened, last>>

----------------------------------------------------------------------------
(* Bounds of the model *)

\* most requests the operator's actions issue in one session (the load that
\* the mount effect issues is not counted)
MaxRequests == 2

----------------------------------------------------------------------------
(* Strings and arrays *)

\* editingIndex / editingBindingIndex: null
Null == -1

IsSpace(c) == c = " "

RECURSIVE TrimStart(_)
TrimStart(s) == IF s # <<>> /\ IsSpace(Head(s)) THEN TrimStart(Tail(s)) ELSE s

RECURSIVE TrimEnd(_)
TrimEnd(s) == IF s # <<>> /\ IsSpace(s[Len(s)]) THEN TrimEnd(SubSeq(s, 1, Len(s) - 1)) ELSE s

\* String.prototype.trim
trim(s) == TrimEnd(TrimStart(s))

\* Array.prototype.includes
includes(arr, v) == \E i \in 1..Len(arr) : arr[i] = v

\* arr.filter((_, i) => i !== index)
RECURSIVE filterIndexFrom(_, _, _)
filterIndexFrom(arr, index, i) ==
    IF arr = <<>> THEN <<>>
    ELSE IF i # index THEN <<Head(arr)>> \o filterIndexFrom(Tail(arr), index, i + 1)
         ELSE filterIndexFrom(Tail(arr), index, i + 1)

\* the filter counting its positions from one
filterIndex_fromOne(arr, index) == filterIndexFrom(arr, index, 1)

filterIndex(arr, index) == filterIndexFrom(arr, index, 0)

\* arr.map((r, i) => (i === index ? value : r))
mapReplace(arr, index, value) ==
    [i \in 1..Len(arr) |-> IF i - 1 = index THEN value ELSE arr[i]]

\* order.map((o) => o.pattern) and order.map((pattern) => ({ pattern }))
patternsOf(order) == [i \in 1..Len(order) |-> order[i].pattern]
toOrder(patterns) == [i \in 1..Len(patterns) |-> [pattern |-> patterns[i]]]

\* x !== false, for an optional boolean field
fieldNotFalse(rec, f) == IF f \in DOMAIN rec THEN rec[f] # FALSE ELSE TRUE

----------------------------------------------------------------------------
(* Values *)

\* a field typed optional is present in the object
has(obj, f) == f \in DOMAIN obj

\* obj[f] || fallback, for a field whose falsy values are listed
orElse(obj, f, falsy, fallback) ==
    IF has(obj, f) /\ obj[f] \notin falsy THEN obj[f] ELSE fallback

Digits == <<"0", "1", "2", "3", "4", "5", "6", "7", "8", "9">>
IsDigit(c) == \E d \in DOMAIN Digits : Digits[d] = c
DigitValue(c) == (CHOOSE d \in DOMAIN Digits : Digits[d] = c) - 1

\* NaN, told apart from every number a text of digits denotes
NaN == -2

\* value of the longest prefix of digits of s, read after the digits `acc`
RECURSIVE parseDigits(_, _)
parseDigits(s, acc) ==
    IF s = <<>> \/ ~IsDigit(Head(s)) THEN acc
    ELSE parseDigits(Tail(s), acc * 10 + DigitValue(Head(s)))

\* parseInt(s, 10) of a text without a sign: leading white space is skipped,
\* the digits up to the first other character are read, NaN when there is none
parseInt(s) ==
    IF TrimStart(s) = <<>> \/ ~IsDigit(Head(TrimStart(s))) THEN NaN
    ELSE parseDigits(TrimStart(s), 0)

\* Number.prototype.toString of a natural number
RECURSIVE toString(_)
toString(n) ==
    IF n < 10 THEN <<Digits[n + 1]>>
    ELSE Append(toString(n \div 10), Digits[(n % 10) + 1])

\* emptyRuleForm, emptyBindingForm
emptyRuleForm    == [models |-> <<>>, order |-> <<>>, fallback |-> TRUE]
emptyBindingForm == [apiKey |-> <<>>, authIds |-> <<>>, fallback |-> TRUE]

\* emptyConfigForm
emptyConfigForm ==
    [key |-> <<>>, requestsPerDay |-> <<>>, requestsPerMonth |-> <<>>,
     tokensPerDay |-> <<>>, tokensPerMonth |-> <<>>,
     allowedProviders |-> <<>>, authIds |-> <<>>]

\* RoutingStrategy
RoutingStrategy == {"round-robin", "fill-first"}

\* connectionStatus !== 'connected'
disableControls == connectionStatus # "connected"

\* Entities the remote store may hold before the session starts.  A field
\* typed optional in the interfaces may be absent.
RuleDefault == [models |-> <<>>, order |-> <<[pattern |-> <<"*">>]>>, fallback |-> TRUE]
RuleM       == [models |-> << <<"m">> >>, order |-> <<[pattern |-> <<"a">>]>>]
BindK       == [api_key |-> <<"k">>, auth_ids |-> << <<"a">> >>, fallback |-> FALSE]

BindJ       == [api_key |-> <<"j">>, auth_ids |-> << <<"b">> >>]

\* ApiKeyConfig, ApiKeyUsage and RateLimitingConfig values of the store; an
\* object with a hyphenated field is written as a function of its field names
UsageA     == [requests_today |-> 9, requests_month |-> 9, tokens_today |-> 0, tokens_month |-> 0]
ConfigA    == [key |-> <<"a">>, limits |-> ("requests-per-day" :> 5)]
                 @@ ("allowed-providers" :> << <<"p">> >>)
ConfigSpaced == [key |-> <<"b", " ">>]

\* a store with two metered keys and every global setting set
UsageB  == [requests_today |-> 1, requests_month |-> 2, tokens_today |-> 3, tokens_month |-> 4]
ConfigB == [key |-> <<"b">>, limits |-> ("tokens-per-day" :> 4)]
RemoteMetered ==
    [api_key_configs |-> <<ConfigA, ConfigB>>,
     rate_limiting |-> [enabled |-> TRUE] @@ ("exceeded-status-code" :> 503)
                           @@ ("persistence-path" :> <<"d">>),
     usage |-> (<<"a">> :> UsageA) @@ (<<"b">> :> UsageB)]

InitRateLimitRemotes ==
    { [api_key_configs |-> <<ConfigA, ConfigSpaced>>,
       rate_limiting |-> [enabled |-> TRUE],
       usage |-> (<<"a">> :> UsageA)],
      [api_key_configs |-> <<ConfigSpaced>>,
       rate_limiting |-> [enabled |-> FALSE] @@ ("exceeded-status-code" :> 503),
       usage |-> <<>>] }

RemoteShort ==
    [strategy |-> "round-robin", priority |-> <<RuleDefault>>, bindings |-> <<BindK>>]
\* a rule whose order names one pattern twice
RuleRepeat == [models |-> <<>>, order |-> <<[pattern |-> <<"a">>], [pattern |-> <<"a">>]>>]
RemoteRepeat ==
    [strategy |-> "round-robin", priority |-> <<RuleRepeat>>, bindings |-> <<BindK>>]
\* a rule with its fallback off
RuleStrict == [models |-> << <<"m">> >>, order |-> <<[pattern |-> <<"a">>]>>, fallback |-> FALSE]
RemoteStrict ==
    [strategy |-> "fill-first", priority |-> <<RuleStrict>>, bindings |-> <<BindJ>>]
\* stores whose config lacks fields: the strategy and the bindings, or the
\* priority list and the bindings
RemoteFresh == [priority |-> <<RuleDefault>>]
RemoteUnset == [strategy |-> "fill-first"]
RemoteLong ==
    [strategy |-> "fill-first", priority |-> <<RuleM, RuleDefault>>, bindings |-> <<BindJ, BindK>>]

InitRemotes == {RemoteShort, RemoteLong}

----------------------------------------------------------------------------
(* Requests *)

NoBody == [none |-> TRUE]

\* what the page shows of the store when a request is issued (history only)
Shown ==
    [strategy |-> strategy, rules |-> rules, bindings |-> bindings,
     configs |-> configs, rateLimiting |-> rateLimiting, usage |-> usage]

\* A call of an api function: `closure` is the list the awaiting handler
\* captured when it was invoked, `result` the response body of a GET.
Request(kind, index, body, closure) ==
    [kind |-> kind, index |-> index, body |-> body, closure |-> closure,
     phase |-> "sent", result |-> NoBody, at |-> Shown]

NoReq == [kind |-> "none"]

\* loadRouting's call, and the three calls loadData joins with Promise.all
Loads == {"getConfig", "loadData"}

\* the calls of the save handlers of the modals, which close the modal on success
Saves ==
    {"addPriorityRule", "updatePriorityRule", "addBinding", "updateBinding",
     "addConfig", "updateConfig"}

\* "toggleEnabled" and "saveGlobalSettings" are the calls of updateRateLimiting
\* by handleToggleEnabled and by handleSaveGlobalSettings
Mutating ==
    {"updateStrategy", "addPriorityRule", "updatePriorityRule", "deletePriorityRule",
     "addBinding", "updateBinding", "deleteBinding",
     "toggleEnabled", "saveGlobalSettings", "addConfig", "updateConfig",
     "deleteConfig", "resetUsage"}

removeAt(seq, i) == SubSeq(seq, 1, i - 1) \o SubSeq(seq, i + 1, Len(seq))

Issue(req) ==
    /\ issued < budget
    /\ issued' = issued + 1
    /\ inflight' = Append(inflight, req)
    /\ last' = [op |-> "issue", req |-> req]
    /\ UNCHANGED <<budget, loaded, opened>>

\* a step that neither issues nor settles a request; `op` names the kinds of
\* step the history tells apart
Step(op) ==
    /\ last' = [op |-> IF op \in {"invalid", "toggle"} THEN op ELSE "other", req |-> NoReq]
    /\ UNCHANGED <<issued, budget, loaded, opened>>

\* a step of a tag editor: handleAddTag called on `raw` (op "tag") or
\* handleRemoveTag called on index `raw` (op "untag"), with the list as it was
StepTag(op, field, raw, before) ==
    /\ last' = [op |-> op, req |-> NoReq, field |-> field, raw |-> raw, before |-> before]
    /\ UNCHANGED <<issued, budget, loaded, opened>>

\* a step that opens a modal on a row (index Null: opened for add), or closes it
NoneOpened == [index |-> Null, entity |-> NoBody]

StepOpen(index, entity) ==
    /\ last' = [op |-> "other", req |-> NoReq]
    /\ opened' = [index |-> index, entity |-> entity]
    /\ UNCHANGED <<issued, budget, loaded>>

StepClose ==
    /\ last' = [op |-> "other", req |-> NoReq]
    /\ opened' = NoneOpened
    /\ UNCHANGED <<issued, budget, loaded>>

----------------------------------------------------------------------------
(* The remote store *)

InRange(list, index) == index >= 0 /\ index < Len(list)

HasKey(list, key) == \E j \in DOMAIN list : list[j].key = key

\* the record without field key
without(rec, key) == [k \in DOMAIN rec \ {key} |-> rec[k]]

\* Whether the store accepts the request.
RemoteAccepts(req) ==
    CASE req.kind = "updatePriorityRule" -> InRange(remote.priority, req.index)
      [] req.kind = "deletePriorityRule" -> InRange(remote.priority, req.index)
      [] req.kind = "updateBinding"      -> InRange(remote.bindings, req.index)
      [] req.kind = "deleteBinding"      -> InRange(remote.bindings, req.index)
      [] req.kind = "updateConfig"       -> HasKey(remote.api_key_configs, req.index)
      [] req.kind = "deleteConfig"       -> HasKey(remote.api_key_configs, req.index)
      [] OTHER -> TRUE

\* The store after it has applied the request.
RemoteApply(req) ==
    CASE req.kind = "updateStrategy" ->
            [strategy |-> req.body] @@ remote
      [] req.kind = "addPriorityRule" ->
            [remote EXCEPT !.priority = Append(@, req.body)]
      [] req.kind = "updatePriorityRule" ->
            [remote EXCEPT !.priority = [@ EXCEPT ![req.index + 1] = req.body]]
      [] req.kind = "deletePriorityRule" ->
            [remote EXCEPT !.priority = removeAt(@, req.index + 1)]
      [] req.kind = "addBinding" ->
            [remote EXCEPT !.bindings = Append(@, req.body)]
      [] req.kind = "updateBinding" ->
            [remote EXCEPT !.bindings = [@ EXCEPT ![req.index + 1] = req.body]]
      [] req.kind = "deleteBinding" ->
            [remote EXCEPT !.bindings = removeAt(@, req.index + 1)]
      [] req.kind \in {"toggleEnabled", "saveGlobalSettings"} ->
            [remote EXCEPT !.rate_limiting = req.body]
      [] req.kind = "addConfig" ->
            [remote EXCEPT !.api_key_configs = Append(@, req.body)]
      [] req.kind = "updateConfig" ->
            [remote EXCEPT !.api_key_configs =
                [j \in DOMAIN @ |-> IF @[j].key = req.index THEN req.body ELSE @[j]]]
      [] req.kind = "deleteConfig" ->
            [remote EXCEPT !.api_key_configs = SelectSeq(@, LAMBDA c : c.key # req.index)]
      [] req.kind = "resetUsage" ->
            [remote EXCEPT !.usage = without(@, req.index)]
      [] OTHER -> remote

\* the three calls of loadData
Fetches == {"configs", "rateLimiting", "usage"}

\* The response bodies the awaiting handler may get for a call that did not
\* fail.  loadData replaces each of its three calls that fails by a default;
\* `failed` names the calls that failed.
Answers(req) ==
    CASE req.kind = "getConfig" -> {remote}
      [] req.kind = "loadData" ->
            { [api_key_configs |-> IF "configs" \in F THEN <<>> ELSE remote.api_key_configs,
               rate_limiting   |-> IF "rateLimiting" \in F THEN [enabled |-> TRUE]
                                   ELSE remote.rate_limiting,
               usage           |-> IF "usage" \in F THEN <<>> ELSE remote.usage,
               failed          |-> F] : F \in SUBSET Fetches }
      [] OTHER -> {NoBody}

\* The store serves request n: it applies it and answers, or the call fails
\* (transport failure or a failure the store reports) and the store is as before.
Serve(n) ==
    /\ n \in 1..Len(inflight)
    /\ inflight[n].phase = "sent"
    /\ \/ /\ RemoteAccepts(inflight[n])
          /\ remote' = RemoteApply(inflight[n])
          /\ \E answer \in Answers(inflight[n]) :
                inflight' = [inflight EXCEPT ![n].phase = "ok", ![n].result = answer]
       \/ /\ inflight[n].kind # "loadData"
          /\ remote' = remote
          /\ inflight' = [inflight EXCEPT ![n].phase = "fail"]
    /\ Step("serve")
    /\ UNCHANGED <<page, rateLimitsOnly, connectionStatus, notification, pageVars, routingData,
                   ruleModal, bindModal>>

Settled(n, kinds) ==
    /\ n \in 1..Len(inflight)
    /\ inflight[n].kind \in kinds
    /\ inflight[n].phase \in {"ok", "fail"}

\* a successful save closes the modal of its own form, if that one is open
ClosesOpenModal(kind) ==
    \/ kind \in {"updatePriorityRule", "addPriorityRule"} /\ modalOpen
    \/ kind \in {"updateBinding", "addBinding"} /\ bindingModalOpen
    \/ kind \in {"updateConfig", "addConfig"} /\ modalOpen

\* the end of a handler that sends a failed mutating request again
Settle_retry(n) ==
    /\ inflight' = IF inflight[n].phase = "fail" /\ inflight[n].kind \in Mutating
                    THEN [inflight EXCEPT ![n].phase = "sent"]
                    ELSE removeAt(inflight, n)
    /\ loaded' = (loaded \/ (inflight[n].kind \in Loads /\ inflight[n].phase = "ok"))
    /\ opened' = IF inflight[n].phase = "ok" /\ ClosesOpenModal(inflight[n].kind)
                 THEN NoneOpened ELSE opened
    /\ UNCHANGED <<issued, budget>>
    /\ last' = [op |-> "settle", req |-> inflight[n]]

Settle(n) ==
    /\ inflight' = removeAt(inflight, n)
    /\ loaded' = (loaded \/ (inflight[n].kind \in Loads /\ inflight[n].phase = "ok"))
    /\ opened' = IF inflight[n].phase = "ok" /\ ClosesOpenModal(inflight[n].kind)
                 THEN NoneOpened ELSE opened
    /\ UNCHANGED <<issued, budget>>
    /\ last' = [op |-> "settle", req |-> inflight[n]]

----------------------------------------------------------------------------
(* Routing page: what is rendered and operable *)

OnRouting == page = "routing"

\* The cards are rendered only when not loading, and an open Modal covers them.
RoutingCards == OnRouting /\ ~loading /\ ~modalOpen /\ ~bindingModalOpen

----------------------------------------------------------------------------
(* Routing page: load and strategy *)

\* loadRouting, up to the await
loadRouting ==
    /\ loading' = TRUE
    /\ error' = ""
    /\ Issue(Request("getConfig", Null, NoBody, <<>>))
    /\ UNCHANGED <<page, rateLimitsOnly, connectionStatus, notification, saving, routingData,
                   ruleModal, bindModal, remote>>

\* the refresh Button: onClick={loadRouting} disabled={loading}
RefreshRouting ==
    /\ RoutingCards
    /\ ~loading
    /\ loadRouting

\* loadRouting without its setStrategy
LoadRoutingSettled_keepsStrategy(n) ==
    /\ OnRouting
    /\ Settled(n, {"getConfig"})
    /\ IF inflight[n].phase = "ok"
       THEN /\ strategy' = strategy
            /\ rules' = orElse(inflight[n].result, "priority", {}, <<>>)
            /\ bindings' = orElse(inflight[n].result, "bindings", {}, <<>>)
            /\ error' = error
       ELSE /\ error' = "refresh_failed"
            /\ UNCHANGED routingData
    /\ loading' = FALSE
    /\ Settle(n)
    /\ UNCHANGED <<page, rateLimitsOnly, connectionStatus, notification, saving,
                   ruleModal, bindModal, remote>>

\* loadRouting, from the await on
LoadRoutingSettled(n) ==
    /\ OnRouting
    /\ Settled(n, {"getConfig"})
    /\ IF inflight[n].phase = "ok"
       THEN /\ strategy' = orElse(inflight[n].result, "strategy", {""}, "round-robin")
            /\ rules' = orElse(inflight[n].result, "priority", {}, <<>>)
            /\ bindings' = orElse(inflight[n].result, "bindings", {}, <<>>)
            /\ error' = error
       ELSE /\ error' = "refresh_failed"
            /\ UNCHANGED routingData
    /\ loading' = FALSE
    /\ Settle(n)
    /\ UNCHANGED <<page, rateLimitsOnly, connectionStatus, notification, saving,
                   ruleModal, bindModal, remote>>

\* handleStrategyChange without its test of the strategy selected
handleStrategyChange_always(newStrategy) ==
    /\ RoutingCards
    /\ IF disableControls
       THEN /\ Step("return")
            /\ UNCHANGED <<saving, inflight>>
       ELSE /\ saving' = TRUE
            /\ Issue(Request("updateStrategy", Null, newStrategy, <<>>))
    /\ UNCHANGED <<page, rateLimitsOnly, connectionStatus, notification, loading, error, routingData,
                   ruleModal, bindModal, remote>>

\* handleStrategyChange, up to the await (the option's onClick)
handleStrategyChange(newStrategy) ==
    /\ RoutingCards
    /\ IF newStrategy = strategy \/ disableControls
       THEN /\ Step("return")
            /\ UNCHANGED <<saving, inflight>>
       ELSE /\ saving' = TRUE
            /\ Issue(Request("updateStrategy", Null, newStrategy, <<>>))
    /\ UNCHANGED <<page, rateLimitsOnly, connectionStatus, notification, loading, error, routingData,
                   ruleModal, bindModal, remote>>

\* handleStrategyChange, from the await on
StrategyChangeSettled(n) ==
    /\ OnRouting
    /\ Settled(n, {"updateStrategy"})
    /\ IF inflight[n].phase = "ok"
       THEN /\ strategy' = inflight[n].body
            /\ notification' = "success"
       ELSE /\ strategy' = strategy
            /\ notification' = "error"
    /\ saving' = FALSE
    /\ Settle(n)
    /\ UNCHANGED <<page, rateLimitsOnly, connectionStatus, loading, error, rules, bindings,
                   ruleModal, bindModal, remote>>

----------------------------------------------------------------------------
(* Routing page: the rule modal *)

openAddModal ==
    /\ RoutingCards
    /\ ~disableControls
    /\ editingIndex' = Null
    /\ formData' = emptyRuleForm
    /\ modelInput' = <<>>
    /\ orderInput' = <<>>
    /\ modalOpen' = TRUE
    /\ StepOpen(Null, NoBody)
    /\ UNCHANGED <<page, rateLimitsOnly, connectionStatus, notification, pageVars, routingData,
                   bindModal, remote, inflight>>

openEditModal(index) ==
    /\ RoutingCards
    /\ ~disableControls
    /\ InRange(rules, index)
    /\ LET rule == rules[index + 1] IN
         /\ editingIndex' = index
         /\ formData' = [models   |-> rule.models,
                         order    |-> patternsOf(rule.order),
                         fallback |-> fieldNotFalse(rule, "fallback")]
    /\ modelInput' = <<>>
    /\ orderInput' = <<>>
    /\ modalOpen' = TRUE
    /\ StepOpen(index, rules[index + 1])
    /\ UNCHANGED <<page, rateLimitsOnly, connectionStatus, notification, pageVars, routingData,
                   bindModal, remote, inflight>>

\* closeModal as a state update
closeModalUpdate ==
    /\ modalOpen' = FALSE
    /\ formData' = emptyRuleForm
    /\ editingIndex' = Null

\* the Modal's onClose, and the cancel Button
closeModal ==
    /\ OnRouting
    /\ modalOpen
    /\ closeModalUpdate
    /\ StepClose
    /\ UNCHANGED <<page, rateLimitsOnly, connectionStatus, notification, pageVars, routingData,
                   modelInput, orderInput, bindModal, remote, inflight>>

\* onChange of the two tag inputs
setModelInput(text) ==
    /\ OnRouting
    /\ modalOpen
    /\ modelInput' = text
    /\ Step("type")
    /\ UNCHANGED <<page, rateLimitsOnly, connectionStatus, notification, pageVars, routingData,
                   modalOpen, editingIndex, formData, orderInput, bindModal, remote, inflight>>

setOrderInput(text) ==
    /\ OnRouting
    /\ modalOpen
    /\ orderInput' = text
    /\ Step("type")
    /\ UNCHANGED <<page, rateLimitsOnly, connectionStatus, notification, pageVars, routingData,
                   modalOpen, editingIndex, formData, modelInput, bindModal, remote, inflight>>

\* handleAddTag without its includes test
addTag_repeats(list, value) ==
    LET trimmed == trim(value) IN
    IF trimmed = <<>> THEN <<list, value>> ELSE <<Append(list, trimmed), <<>> >>

\* handleAddTag with its setter('') inside the includes test
addTag_keepsInput(list, value) ==
    LET trimmed == trim(value) IN
    IF trimmed = <<>> THEN <<list, value>>
    ELSE IF ~includes(list, trimmed) THEN <<Append(list, trimmed), <<>> >>
         ELSE <<list, value>>

\* handleAddTag as a function of the tag list and the input: the pair
\* <<list, input>> it leaves
addTag(list, value) ==
    LET trimmed == trim(value) IN
    IF trimmed = <<>> THEN <<list, value>>
    ELSE IF ~includes(list, trimmed) THEN <<Append(list, trimmed), <<>> >>
         ELSE <<list, <<>> >>

\* handleAddTag(field, value, setter), by Enter, comma or blur
handleAddTag(field) ==
    /\ OnRouting
    /\ modalOpen
    /\ LET value == IF field = "models" THEN modelInput ELSE orderInput
           out   == addTag(formData[field], value) IN
         /\ formData' = [formData EXCEPT ![field] = out[1]]
         /\ IF field = "models"
            THEN modelInput' = out[2] /\ orderInput' = orderInput
            ELSE orderInput' = out[2] /\ modelInput' = modelInput
    /\ StepTag("tag", field, IF field = "models" THEN modelInput ELSE orderInput,
               formData[field])
    /\ UNCHANGED <<page, rateLimitsOnly, connectionStatus, notification, pageVars, routingData,
                   modalOpen, editingIndex, bindModal, remote, inflight>>

handleRemoveTag(field, index) ==
    /\ OnRouting
    /\ modalOpen
    /\ formData' = [formData EXCEPT ![field] = filterIndex(@, index)]
    /\ StepTag("untag", field, index, formData[field])
    /\ UNCHANGED <<page, rateLimitsOnly, connectionStatus, notification, pageVars, routingData,
                   modalOpen, editingIndex, modelInput, orderInput, bindModal, remote, inflight>>

\* the fallback toggle of the rule form
toggleRuleFallback ==
    /\ OnRouting
    /\ modalOpen
    /\ formData' = [formData EXCEPT !.fallback = ~@]
    /\ Step("toggle")
    /\ UNCHANGED <<page, rateLimitsOnly, connectionStatus, notification, pageVars, routingData,
                   modalOpen, editingIndex, modelInput, orderInput, bindModal, remote, inflight>>

----------------------------------------------------------------------------
(* Routing page: save and delete of a priority rule *)

\* the PriorityRule with its fallback always on
ruleOfForm_fallbackOn(form) ==
    [models |-> form.models, order |-> toOrder(form.order), fallback |-> TRUE]

\* the PriorityRule handleSave builds from the form
ruleOfForm(form) ==
    [models |-> form.models, order |-> toOrder(form.order), fallback |-> form.fallback]

\* the request of a handleSave that tests `if (editingIndex)`: index 0 is falsy
saveRuleRequest_truthy ==
    IF editingIndex \notin {Null, 0}
    THEN Request("updatePriorityRule", editingIndex, ruleOfForm(formData), rules)
    ELSE Request("addPriorityRule", Null, ruleOfForm(formData), rules)

\* the request handleSave issues: editingIndex !== null ? update : add
saveRuleRequest ==
    IF editingIndex # Null
    THEN Request("updatePriorityRule", editingIndex, ruleOfForm(formData), rules)
    ELSE Request("addPriorityRule", Null, ruleOfForm(formData), rules)

\* handleSave without its test of formData.order.length
handleSave_unchecked ==
    /\ OnRouting
    /\ modalOpen
    /\ ~saving
    /\ IF FALSE
       THEN /\ notification' = "error"
            /\ Step("invalid")
            /\ UNCHANGED <<saving, inflight>>
       ELSE /\ saving' = TRUE
            /\ Issue(saveRuleRequest)
            /\ UNCHANGED notification
    /\ UNCHANGED <<page, rateLimitsOnly, connectionStatus, loading, error, routingData,
                   ruleModal, bindModal, remote>>

\* handleSave, up to the await (the modal's save Button, loading={saving})
handleSave ==
    /\ OnRouting
    /\ modalOpen
    /\ ~saving
    /\ IF Len(formData.order) = 0
       THEN /\ notification' = "error"
            /\ Step("invalid")
            /\ UNCHANGED <<saving, inflight>>
       ELSE /\ saving' = TRUE
            /\ Issue(saveRuleRequest)
            /\ UNCHANGED notification
    /\ UNCHANGED <<page, rateLimitsOnly, connectionStatus, loading, error, routingData,
                   ruleModal, bindModal, remote>>

\* a save that puts the new rule first
rulesAfterSave_prepend(req) ==
    IF req.kind = "updatePriorityRule"
    THEN mapReplace(req.closure, req.index, req.body)
    ELSE <<req.body>> \o req.closure

\* the rules list handleSave sets when the call has succeeded
rulesAfterSave(req) ==
    IF req.kind = "updatePriorityRule"
    THEN mapReplace(req.closure, req.index, req.body)
    ELSE Append(req.closure, req.body)

\* handleSave with setSaving(false) at the end of its try block instead of in
\* a finally block
SaveRuleSettled_noFinally(n) ==
    /\ OnRouting
    /\ Settled(n, {"updatePriorityRule", "addPriorityRule"})
    /\ IF inflight[n].phase = "ok"
       THEN /\ rules' = rulesAfterSave(inflight[n])
            /\ notification' = "success"
            /\ closeModalUpdate
            /\ saving' = FALSE
       ELSE /\ notification' = "error"
            /\ UNCHANGED <<rules, modalOpen, formData, editingIndex, saving>>
    /\ Settle(n)
    /\ UNCHANGED <<page, rateLimitsOnly, connectionStatus, loading, error, strategy, bindings,
                   modelInput, orderInput, bindModal, remote>>

\* handleSave, from the await on
SaveRuleSettled(n) ==
    /\ OnRouting
    /\ Settled(n, {"updatePriorityRule", "addPriorityRule"})
    /\ IF inflight[n].phase = "ok"
       THEN /\ rules' = rulesAfterSave(inflight[n])
            /\ notification' = "success"
            /\ closeModalUpdate
       ELSE /\ notification' = "error"
            /\ UNCHANGED <<rules, modalOpen, formData, editingIndex>>
    /\ saving' = FALSE
    /\ Settle(n)
    /\ UNCHANGED <<page, rateLimitsOnly, connectionStatus, loading, error, strategy, bindings,
                   modelInput, orderInput, bindModal, remote>>

\* handleDelete(index), up to the await (the row's delete Button)
handleDelete(index, confirmed) ==
    /\ RoutingCards
    /\ ~(disableControls \/ saving)
    /\ InRange(rules, index)
    /\ IF ~confirmed
       THEN /\ Step("return")
            /\ UNCHANGED <<saving, inflight>>
       ELSE /\ saving' = TRUE
            /\ Issue(Request("deletePriorityRule", index, NoBody, rules))
    /\ UNCHANGED <<page, rateLimitsOnly, connectionStatus, notification, loading, error, routingData,
                   ruleModal, bindModal, remote>>

\* a delete that removes the row after the one asked for
rulesAfterDelete_next(req) == filterIndex(req.closure, req.index + 1)

\* the rules list handleDelete sets when the call has succeeded
rulesAfterDelete(req) == filterIndex(req.closure, req.index)

\* a handleDelete that compares the store with its own list after the call
DeleteRuleSettled_compares(n) ==
    /\ OnRouting
    /\ Settled(n, {"deletePriorityRule"})
    /\ IF inflight[n].phase = "ok"
       THEN /\ rules' = rulesAfterDelete(inflight[n])
            /\ notification' = IF remote.priority = rulesAfterDelete(inflight[n])
                               THEN "success" ELSE "error"
       ELSE /\ rules' = rules
            /\ notification' = "error"
    /\ saving' = FALSE
    /\ Settle(n)
    /\ UNCHANGED <<page, rateLimitsOnly, connectionStatus, loading, error, strategy, bindings,
                   ruleModal, bindModal, remote>>

\* handleDelete, from the await on
DeleteRuleSettled(n) ==
    /\ OnRouting
    /\ Settled(n, {"deletePriorityRule"})
    /\ IF inflight[n].phase = "ok"
       THEN /\ rules' = rulesAfterDelete(inflight[n])
            /\ notification' = "success"
       ELSE /\ rules' = rules
            /\ notification' = "error"
    /\ saving' = FALSE
    /\ Settle(n)
    /\ UNCHANGED <<page, rateLimitsOnly, connectionStatus, loading, error, strategy, bindings,
                   ruleModal, bindModal, remote>>

----------------------------------------------------------------------------
(* Routing page: the binding modal *)

openAddBindingModal ==
    /\ RoutingCards
    /\ ~disableControls
    /\ editingBindingIndex' = Null
    /\ bindingFormData' = emptyBindingForm
    /\ authIdInput' = <<>>
    /\ bindingModalOpen' = TRUE
    /\ StepOpen(Null, NoBody)
    /\ UNCHANGED <<page, rateLimitsOnly, connectionStatus, notification, pageVars, routingData,
                   ruleModal, remote, inflight>>

openEditBindingModal(index) ==
    /\ RoutingCards
    /\ ~disableControls
    /\ InRange(bindings, index)
    /\ LET binding == bindings[index + 1] IN
         /\ editingBindingIndex' = index
         /\ bindingFormData' = [apiKey   |-> binding.api_key,
                                authIds  |-> binding.auth_ids,
                                fallback |-> fieldNotFalse(binding, "fallback")]
    /\ authIdInput' = <<>>
    /\ bindingModalOpen' = TRUE
    /\ StepOpen(index, bindings[index + 1])
    /\ UNCHANGED <<page, rateLimitsOnly, connectionStatus, notification, pageVars, routingData,
                   ruleModal, remote, inflight>>

closeBindingModalUpdate ==
    /\ bindingModalOpen' = FALSE
    /\ bindingFormData' = emptyBindingForm
    /\ editingBindingIndex' = Null

closeBindingModal ==
    /\ OnRouting
    /\ bindingModalOpen
    /\ closeBindingModalUpdate
    /\ StepClose
    /\ UNCHANGED <<page, rateLimitsOnly, connectionStatus, notification, pageVars, routingData,
                   ruleModal, authIdInput, remote, inflight>>

\* onChange of the api-key Input of the binding form
setBindingApiKey(text) ==
    /\ OnRouting
    /\ bindingModalOpen
    /\ bindingFormData' = [bindingFormData EXCEPT !.apiKey = text]
    /\ Step("type")
    /\ UNCHANGED <<page, rateLimitsOnly, connectionStatus, notification, pageVars, routingData,
                   ruleModal, bindingModalOpen, editingBindingIndex, authIdInput,
                   remote, inflight>>

\* onChange of the auth-id tag input
setAuthIdInput(text) ==
    /\ OnRouting
    /\ bindingModalOpen
    /\ authIdInput' = text
    /\ Step("type")
    /\ UNCHANGED <<page, rateLimitsOnly, connectionStatus, notification, pageVars, routingData,
                   ruleModal, bindingModalOpen, editingBindingIndex, bindingFormData,
                   remote, inflight>>

\* handleAddAuthId(authIdInput), by Enter, comma or blur
handleAddAuthId ==
    /\ OnRouting
    /\ bindingModalOpen
    /\ LET out == addTag(bindingFormData.authIds, authIdInput) IN
         /\ bindingFormData' = [bindingFormData EXCEPT !.authIds = out[1]]
         /\ authIdInput' = out[2]
    /\ StepTag("tag", "bindingAuthIds", authIdInput, bindingFormData.authIds)
    /\ UNCHANGED <<page, rateLimitsOnly, connectionStatus, notification, pageVars, routingData,
                   ruleModal, bindingModalOpen, editingBindingIndex, remote, inflight>>

handleRemoveAuthId(index) ==
    /\ OnRouting
    /\ bindingModalOpen
    /\ bindingFormData' = [bindingFormData EXCEPT !.authIds = filterIndex(@, index)]
    /\ StepTag("untag", "bindingAuthIds", index, bindingFormData.authIds)
    /\ UNCHANGED <<page, rateLimitsOnly, connectionStatus, notification, pageVars, routingData,
                   ruleModal, bindingModalOpen, editingBindingIndex, authIdInput,
                   remote, inflight>>

toggleBindingFallback ==
    /\ OnRouting
    /\ bindingModalOpen
    /\ bindingFormData' = [bindingFormData EXCEPT !.fallback = ~@]
    /\ Step("toggle")
    /\ UNCHANGED <<page, rateLimitsOnly, connectionStatus, notification, pageVars, routingData,
                   ruleModal, bindingModalOpen, editingBindingIndex, authIdInput,
                   remote, inflight>>

----------------------------------------------------------------------------
(* Routing page: save and delete of a binding *)

\* the AuthBinding handleSaveBinding builds from the form
bindingOfForm(form) ==
    [api_key |-> trim(form.apiKey), auth_ids |-> form.authIds, fallback |-> form.fallback]

saveBindingRequest ==
    IF editingBindingIndex # Null
    THEN Request("updateBinding", editingBindingIndex, bindingOfForm(bindingFormData), bindings)
    ELSE Request("addBinding", Null, bindingOfForm(bindingFormData), bindings)

\* handleSaveBinding without its test of bindingFormData.authIds.length
handleSaveBinding_keyOnly ==
    /\ OnRouting
    /\ bindingModalOpen
    /\ ~saving
    /\ IF trim(bindingFormData.apiKey) = <<>>
       THEN /\ notification' = "error"
            /\ Step("invalid")
            /\ UNCHANGED <<saving, inflight>>
       ELSE /\ saving' = TRUE
            /\ Issue(saveBindingRequest)
            /\ UNCHANGED notification
    /\ UNCHANGED <<page, rateLimitsOnly, connectionStatus, loading, error, routingData,
                   ruleModal, bindModal, remote>>

\* handleSaveBinding, up to the await
handleSaveBinding ==
    /\ OnRouting
    /\ bindingModalOpen
    /\ ~saving
    /\ IF trim(bindingFormData.apiKey) = <<>> \/ Len(bindingFormData.authIds) = 0
       THEN /\ notification' = "error"
            /\ Step("invalid")
            /\ UNCHANGED <<saving, inflight>>
       ELSE /\ saving' = TRUE
            /\ Issue(saveBindingRequest)
            /\ UNCHANGED notification
    /\ UNCHANGED <<page, rateLimitsOnly, connectionStatus, loading, error, routingData,
                   ruleModal, bindModal, remote>>

bindingsAfterSave(req) ==
    IF req.kind = "updateBinding"
    THEN mapReplace(req.closure, req.index, req.body)
    ELSE Append(req.closure, req.body)

\* handleSaveBinding with closeBindingModal() after its try / catch
SaveBindingSettled_closesAlways(n) ==
    /\ OnRouting
    /\ Settled(n, {"updateBinding", "addBinding"})
    /\ IF inflight[n].phase = "ok"
       THEN /\ bindings' = bindingsAfterSave(inflight[n])
            /\ notification' = "success"
       ELSE /\ notification' = "error"
            /\ UNCHANGED bindings
    /\ closeBindingModalUpdate
    /\ saving' = FALSE
    /\ Settle(n)
    /\ UNCHANGED <<page, rateLimitsOnly, connectionStatus, loading, error, strategy, rules,
                   ruleModal, authIdInput, remote>>

\* handleSaveBinding, from the await on
SaveBindingSettled(n) ==
    /\ OnRouting
    /\ Settled(n, {"updateBinding", "addBinding"})
    /\ IF inflight[n].phase = "ok"
       THEN /\ bindings' = bindingsAfterSave(inflight[n])
            /\ notification' = "success"
            /\ closeBindingModalUpdate
       ELSE /\ notification' = "error"
            /\ UNCHANGED <<bindings, bindingModalOpen, bindingFormData, editingBindingIndex>>
    /\ saving' = FALSE
    /\ Settle(n)
    /\ UNCHANGED <<page, rateLimitsOnly, connectionStatus, loading, error, strategy, rules,
                   ruleModal, authIdInput, remote>>

\* handleDeleteBinding(index), up to the await
handleDeleteBinding(index, confirmed) ==
    /\ RoutingCards
    /\ ~(disableControls \/ saving)
    /\ InRange(bindings, index)
    /\ IF ~confirmed
       THEN /\ Step("return")
            /\ UNCHANGED <<saving, inflight>>
       ELSE /\ saving' = TRUE
            /\ Issue(Request("deleteBinding", index, NoBody, bindings))
    /\ UNCHANGED <<page, rateLimitsOnly, connectionStatus, notification, loading, error, routingData,
                   ruleModal, bindModal, remote>>

bindingsAfterDelete(req) == filterIndex(req.closure, req.index)

\* handleDeleteBinding, from the await on
DeleteBindingSettled(n) ==
    /\ OnRouting
    /\ Settled(n, {"deleteBinding"})
    /\ IF inflight[n].phase = "ok"
       THEN /\ bindings' = bindingsAfterDelete(inflight[n])
            /\ notification' = "success"
       ELSE /\ bindings' = bindings
            /\ notification' = "error"
    /\ saving' = FALSE
    /\ Settle(n)
    /\ UNCHANGED <<page, rateLimitsOnly, connectionStatus, loading, error, strategy, rules,
                   ruleModal, bindModal, remote>>

----------------------------------------------------------------------------
(* Rate-limits page: what is rendered and operable *)

OnRateLimits == page = "rateLimits"

\* The cards are rendered only when not loading, and the open Modal covers them.
RateLimitsCards == OnRateLimits /\ ~loading /\ ~modalOpen

\* editingKey: null (no text, as a text is a sequence of single characters)
NoKey == <<"null">>

\* a string or null taken as a condition
truthy(text) == text # NoKey /\ text # <<>>

----------------------------------------------------------------------------
(* Rate-limits page: load and global settings *)

\* loadData, up to the await of Promise.all
loadData ==
    /\ loading' = TRUE
    /\ error' = ""
    /\ Issue(Request("loadData", Null, NoBody, <<>>))
    /\ UNCHANGED <<page, connectionStatus, routingOnly, rateLimitsOnly, notification, saving,
                   modalOpen, formData, authIdInput, remote>>

\* the refresh Button: onClick={loadData} disabled={loading}
RefreshData ==
    /\ RateLimitsCards
    /\ ~loading
    /\ loadData

\* loadData leaving the two draft inputs as they are
LoadDataSettled_keepsInputs(n) ==
    /\ OnRateLimits
    /\ Settled(n, {"loadData"})
    /\ LET res == inflight[n].result IN
         /\ configs' = res.api_key_configs
         /\ rateLimiting' = res.rate_limiting
         /\ UNCHANGED <<statusCodeInput, persistencePathInput>>
         /\ usage' = res.usage
    /\ loading' = FALSE
    /\ Settle(n)
    /\ UNCHANGED <<page, connectionStatus, routingOnly, notification, error, saving,
                   modalOpen, formData, authIdInput, editingKey, providerInput, remote>>

\* loadData, from the await on
LoadDataSettled(n) ==
    /\ OnRateLimits
    /\ Settled(n, {"loadData"})
    /\ LET res == inflight[n].result IN
         /\ configs' = res.api_key_configs
         /\ rateLimiting' = res.rate_limiting
         /\ statusCodeInput' =
                toString(orElse(res.rate_limiting, "exceeded-status-code", {0}, 429))
         /\ persistencePathInput' =
                orElse(res.rate_limiting, "persistence-path", {<<>>}, <<>>)
         /\ usage' = res.usage
    /\ loading' = FALSE
    /\ Settle(n)
    /\ UNCHANGED <<page, connectionStatus, routingOnly, notification, error, saving,
                   modalOpen, formData, authIdInput, editingKey, providerInput, remote>>

\* handleToggleEnabled sending the status code typed in the draft input
handleToggleEnabled_fromDraft ==
    /\ RateLimitsCards
    /\ IF disableControls
       THEN /\ Step("return")
            /\ UNCHANGED <<saving, inflight>>
       ELSE /\ saving' = TRUE
            /\ Issue(Request("toggleEnabled", Null,
                             [enabled |-> ~rateLimiting.enabled]
                                 @@ ("exceeded-status-code" :> parseInt(statusCodeInput)), <<>>))
    /\ UNCHANGED <<page, connectionStatus, routingOnly, rateLimitsOnly, notification,
                   loading, error, modalOpen, formData, authIdInput, remote>>

\* handleToggleEnabled, up to the await (the toggle's onClick)
handleToggleEnabled ==
    /\ RateLimitsCards
    /\ IF disableControls
       THEN /\ Step("return")
            /\ UNCHANGED <<saving, inflight>>
       ELSE /\ saving' = TRUE
            /\ Issue(Request("toggleEnabled", Null,
                             [rateLimiting EXCEPT !.enabled = ~rateLimiting.enabled], <<>>))
    /\ UNCHANGED <<page, connectionStatus, routingOnly, rateLimitsOnly, notification,
                   loading, error, modalOpen, formData, authIdInput, remote>>

\* handleToggleEnabled, from the await on
ToggleEnabledSettled(n) ==
    /\ OnRateLimits
    /\ Settled(n, {"toggleEnabled"})
    /\ IF inflight[n].phase = "ok"
       THEN /\ rateLimiting' = [rateLimiting EXCEPT !.enabled = inflight[n].body.enabled]
            /\ notification' = "success"
       ELSE /\ rateLimiting' = rateLimiting
            /\ notification' = "error"
    /\ saving' = FALSE
    /\ Settle(n)
    /\ UNCHANGED <<page, connectionStatus, routingOnly, loading, error, configs, usage,
                   editingKey, providerInput, statusCodeInput, persistencePathInput,
                   modalOpen, formData, authIdInput, remote>>

\* onChange of the two Inputs of the global settings (disabled={disableControls})
setStatusCodeInput(text) ==
    /\ RateLimitsCards
    /\ ~disableControls
    /\ statusCodeInput' = text
    /\ Step("type")
    /\ UNCHANGED <<page, connectionStatus, routingOnly, notification, pageVars,
                   rateLimitsData, editingKey, providerInput, persistencePathInput,
                   modalOpen, formData, authIdInput, remote, inflight>>

setPersistencePathInput(text) ==
    /\ RateLimitsCards
    /\ ~disableControls
    /\ persistencePathInput' = text
    /\ Step("type")
    /\ UNCHANGED <<page, connectionStatus, routingOnly, notification, pageVars,
                   rateLimitsData, editingKey, providerInput, statusCodeInput,
                   modalOpen, formData, authIdInput, remote, inflight>>

\* newConfig of handleSaveGlobalSettings
newGlobalConfig ==
    LET code == parseInt(statusCodeInput)
        path == trim(persistencePathInput) IN
    [enabled |-> rateLimiting.enabled]
        @@ ("exceeded-status-code" :> IF code \in {NaN, 0} THEN 429 ELSE code)
        @@ (IF path # <<>> THEN ("persistence-path" :> path) ELSE <<>>)

\* handleSaveGlobalSettings, up to the await (the Button is disabled when
\* disableControls || saving)
handleSaveGlobalSettings ==
    /\ RateLimitsCards
    /\ ~disableControls
    /\ ~saving
    /\ saving' = TRUE
    /\ Issue(Request("saveGlobalSettings", Null, newGlobalConfig, <<>>))
    /\ UNCHANGED <<page, connectionStatus, routingOnly, rateLimitsOnly, notification,
                   loading, error, modalOpen, formData, authIdInput, remote>>

\* handleSaveGlobalSettings, from the await on
GlobalSettingsSettled(n) ==
    /\ OnRateLimits
    /\ Settled(n, {"saveGlobalSettings"})
    /\ IF inflight[n].phase = "ok"
       THEN /\ rateLimiting' = inflight[n].body
            /\ notification' = "success"
       ELSE /\ rateLimiting' = rateLimiting
            /\ notification' = "error"
    /\ saving' = FALSE
    /\ Settle(n)
    /\ UNCHANGED <<page, connectionStatus, routingOnly, loading, error, configs, usage,
                   editingKey, providerInput, statusCodeInput, persistencePathInput,
                   modalOpen, formData, authIdInput, remote>>

----------------------------------------------------------------------------
(* Rate-limits page: the key-config modal *)

\* the fields of ApiKeyLimits and the form field each is typed into
LimitNames ==
    {"requests-per-day", "requests-per-month", "tokens-per-day", "tokens-per-month"}

formFieldOf(name) ==
    CASE name = "requests-per-day"   -> "requestsPerDay"
      [] name = "requests-per-month" -> "requestsPerMonth"
      [] name = "tokens-per-day"     -> "tokensPerDay"
      [] name = "tokens-per-month"   -> "tokensPerMonth"

\* config.limits?.[name]?.toString() || ''
limitText(config, name) ==
    IF has(config, "limits") /\ has(config.limits, name)
    THEN toString(config.limits[name]) ELSE <<>>

\* the form openEditModal fills from the config
formOfConfig(config) ==
    [key |-> config.key,
     requestsPerDay   |-> limitText(config, "requests-per-day"),
     requestsPerMonth |-> limitText(config, "requests-per-month"),
     tokensPerDay     |-> limitText(config, "tokens-per-day"),
     tokensPerMonth   |-> limitText(config, "tokens-per-month"),
     allowedProviders |-> orElse(config, "allowed-providers", {}, <<>>),
     authIds          |-> orElse(config, "auth-ids", {}, <<>>)]

\* openAddModal (the add Buttons: disabled={disableControls})
RateLimits_openAddModal ==
    /\ RateLimitsCards
    /\ ~disableControls
    /\ editingKey' = NoKey
    /\ formData' = emptyConfigForm
    /\ providerInput' = <<>>
    /\ authIdInput' = <<>>
    /\ modalOpen' = TRUE
    /\ StepOpen(NoKey, NoBody)
    /\ UNCHANGED <<page, connectionStatus, routingOnly, notification, pageVars,
                   rateLimitsData, statusCodeInput, persistencePathInput, remote, inflight>>

\* openEditModal(config) (the row's edit Button: disabled={disableControls})
RateLimits_openEditModal(index) ==
    /\ RateLimitsCards
    /\ ~disableControls
    /\ InRange(configs, index)
    /\ editingKey' = configs[index + 1].key
    /\ formData' = formOfConfig(configs[index + 1])
    /\ providerInput' = <<>>
    /\ authIdInput' = <<>>
    /\ modalOpen' = TRUE
    /\ StepOpen(configs[index + 1].key, configs[index + 1])
    /\ UNCHANGED <<page, connectionStatus, routingOnly, notification, pageVars,
                   rateLimitsData, statusCodeInput, persistencePathInput, remote, inflight>>

\* what closeModal sets
RateLimits_closeModalUpdate ==
    /\ modalOpen' = FALSE
    /\ formData' = emptyConfigForm
    /\ editingKey' = NoKey

\* closeModal, by the Modal's onClose or the cancel Button
RateLimits_closeModal ==
    /\ OnRateLimits
    /\ modalOpen
    /\ RateLimits_closeModalUpdate
    /\ StepClose
    /\ UNCHANGED <<page, connectionStatus, routingOnly, notification, pageVars,
                   rateLimitsData, providerInput, statusCodeInput, persistencePathInput,
                   authIdInput, remote, inflight>>

\* onChange of a text Input of the form; the key Input has disabled={!!editingKey}
setFormText(field, text) ==
    /\ OnRateLimits
    /\ modalOpen
    /\ field = "key" => ~truthy(editingKey)
    /\ formData' = [formData EXCEPT ![field] = text]
    /\ Step("type")
    /\ UNCHANGED <<page, connectionStatus, routingOnly, rateLimitsOnly, notification,
                   pageVars, modalOpen, authIdInput, remote, inflight>>

\* onChange of the provider tag input
setProviderInput(text) ==
    /\ OnRateLimits
    /\ modalOpen
    /\ providerInput' = text
    /\ Step("type")
    /\ UNCHANGED <<page, connectionStatus, routingOnly, notification, pageVars,
                   rateLimitsData, editingKey, statusCodeInput, persistencePathInput,
                   modalOpen, formData, authIdInput, remote, inflight>>

\* onChange of the auth-id tag input
RateLimits_setAuthIdInput(text) ==
    /\ OnRateLimits
    /\ modalOpen
    /\ authIdInput' = text
    /\ Step("type")
    /\ UNCHANGED <<page, connectionStatus, routingOnly, rateLimitsOnly, notification,
                   pageVars, modalOpen, formData, remote, inflight>>

\* handleAddTag(field, value, setter), by Enter, comma or blur
RateLimits_handleAddTag(field) ==
    /\ OnRateLimits
    /\ modalOpen
    /\ LET value == IF field = "allowedProviders" THEN providerInput ELSE authIdInput
           out   == addTag(formData[field], value) IN
         /\ formData' = [formData EXCEPT ![field] = out[1]]
         /\ IF field = "allowedProviders"
            THEN providerInput' = out[2] /\ authIdInput' = authIdInput
            ELSE authIdInput' = out[2] /\ providerInput' = providerInput
    /\ StepTag("tag", field,
               IF field = "allowedProviders" THEN providerInput ELSE authIdInput,
               formData[field])
    /\ UNCHANGED <<page, connectionStatus, routingOnly, notification, pageVars,
                   rateLimitsData, editingKey, statusCodeInput, persistencePathInput,
                   modalOpen, remote, inflight>>

\* handleRemoveTag(field, index)
RateLimits_handleRemoveTag(field, index) ==
    /\ OnRateLimits
    /\ modalOpen
    /\ formData' = [formData EXCEPT ![field] = filterIndex(@, index)]
    /\ StepTag("untag", field, index, formData[field])
    /\ UNCHANGED <<page, connectionStatus, routingOnly, rateLimitsOnly, notification,
                   pageVars, modalOpen, authIdInput, remote, inflight>>

----------------------------------------------------------------------------
(* Rate-limits page: save, delete, reset *)

\* limits of handleSave with the tests made on the numbers parsed
limitsOfForm_dropsZero(form) ==
    [name \in {l \in LimitNames : form[formFieldOf(l)] # <<>>
                                     /\ parseInt(form[formFieldOf(l)]) # 0} |->
        parseInt(form[formFieldOf(name)])]

\* limits of handleSave: a limit for each form field that is not empty
limitsOfForm(form) ==
    [name \in {l \in LimitNames : form[formFieldOf(l)] # <<>>} |->
        parseInt(form[formFieldOf(name)])]

\* config of handleSave with the key as typed
configOfForm_rawKey(form) ==
    [key |-> form.key]
        @@ (IF DOMAIN limitsOfForm(form) # {}
            THEN [limits |-> limitsOfForm(form)] ELSE <<>>)
        @@ (IF Len(form.allowedProviders) > 0
            THEN ("allowed-providers" :> form.allowedProviders) ELSE <<>>)
        @@ (IF Len(form.authIds) > 0
            THEN ("auth-ids" :> form.authIds) ELSE <<>>)

\* config of handleSave; a field set to undefined is an absent field
configOfForm(form) ==
    [key |-> trim(form.key)]
        @@ (IF DOMAIN limitsOfForm(form) # {}
            THEN [limits |-> limitsOfForm(form)] ELSE <<>>)
        @@ (IF Len(form.allowedProviders) > 0
            THEN ("allowed-providers" :> form.allowedProviders) ELSE <<>>)
        @@ (IF Len(form.authIds) > 0
            THEN ("auth-ids" :> form.authIds) ELSE <<>>)

\* the call handleSave makes: updateConfig(editingKey, config) if (editingKey),
\* else addConfig(config)
saveConfigRequest ==
    IF truthy(editingKey)
    THEN Request("updateConfig", editingKey, configOfForm(formData), <<>>)
    ELSE Request("addConfig", NoKey, configOfForm(formData), <<>>)

\* handleSave, up to the await (the modal's save Button: loading={saving})
RateLimits_handleSave ==
    /\ OnRateLimits
    /\ modalOpen
    /\ ~saving
    /\ IF trim(formData.key) = <<>>
       THEN /\ notification' = "error"
            /\ Step("invalid")
            /\ UNCHANGED <<saving, inflight>>
       ELSE /\ saving' = TRUE
            /\ Issue(saveConfigRequest)
            /\ UNCHANGED notification
    /\ UNCHANGED <<page, connectionStatus, routingOnly, rateLimitsOnly, loading, error,
                   modalOpen, formData, authIdInput, remote>>

\* the update that keeps every entry but those of the key edited first in the list
configsAfterSave_first(prev, req) ==
    IF req.kind = "updateConfig"
    THEN [j \in DOMAIN prev |-> IF j = 1 THEN req.body ELSE prev[j]]
    ELSE Append(prev, req.body)

\* the configs handleSave sets from the configs `prev` when the call has succeeded
configsAfterSave(prev, req) ==
    IF req.kind = "updateConfig"
    THEN [j \in DOMAIN prev |-> IF prev[j].key = req.index THEN req.body ELSE prev[j]]
    ELSE Append(prev, req.body)

\* handleSave, from the await on
SaveConfigSettled(n) ==
    /\ OnRateLimits
    /\ Settled(n, {"updateConfig", "addConfig"})
    /\ IF inflight[n].phase = "ok"
       THEN /\ configs' = configsAfterSave(configs, inflight[n])
            /\ notification' = "success"
            /\ RateLimits_closeModalUpdate
       ELSE /\ notification' = "error"
            /\ UNCHANGED <<configs, modalOpen, formData, editingKey>>
    /\ saving' = FALSE
    /\ Settle(n)
    /\ UNCHANGED <<page, connectionStatus, routingOnly, loading, error, rateLimiting,
                   usage, providerInput, statusCodeInput, persistencePathInput,
                   authIdInput, remote>>

\* handleDelete(config.key), up to the await (the row's delete Button:
\* disabled={disableControls || saving})
RateLimits_handleDelete(index, confirmed) ==
    /\ RateLimitsCards
    /\ ~disableControls
    /\ ~saving
    /\ InRange(configs, index)
    /\ IF ~confirmed
       THEN /\ Step("return")
            /\ UNCHANGED <<saving, inflight>>
       ELSE /\ saving' = TRUE
            /\ Issue(Request("deleteConfig", configs[index + 1].key, NoBody, <<>>))
    /\ UNCHANGED <<page, connectionStatus, routingOnly, rateLimitsOnly, notification,
                   loading, error, modalOpen, formData, authIdInput, remote>>

\* the configs handleDelete sets from the configs `prev` when the call has succeeded
configsAfterDelete(prev, req) == SelectSeq(prev, LAMBDA c : c.key # req.index)

\* a handleDelete that drops the usage entry of the key as well
DeleteConfigSettled_dropsUsage(n) ==
    /\ OnRateLimits
    /\ Settled(n, {"deleteConfig"})
    /\ IF inflight[n].phase = "ok"
       THEN /\ configs' = configsAfterDelete(configs, inflight[n])
            /\ usage' = without(usage, inflight[n].index)
            /\ notification' = "success"
       ELSE /\ configs' = configs
            /\ usage' = usage
            /\ notification' = "error"
    /\ saving' = FALSE
    /\ Settle(n)
    /\ UNCHANGED <<page, connectionStatus, routingOnly, loading, error, rateLimiting,
                   editingKey, providerInput, statusCodeInput,
                   persistencePathInput, modalOpen, formData, authIdInput, remote>>

\* handleDelete, from the await on
DeleteConfigSettled(n) ==
    /\ OnRateLimits
    /\ Settled(n, {"deleteConfig"})
    /\ IF inflight[n].phase = "ok"
       THEN /\ configs' = configsAfterDelete(configs, inflight[n])
            /\ notification' = "success"
       ELSE /\ configs' = configs
            /\ notification' = "error"
    /\ saving' = FALSE
    /\ Settle(n)
    /\ UNCHANGED <<page, connectionStatus, routingOnly, loading, error, rateLimiting,
                   usage, editingKey, providerInput, statusCodeInput,
                   persistencePathInput, modalOpen, formData, authIdInput, remote>>

\* handleResetUsage(config.key), up to the await (the Button is rendered when
\* usage[config.key] is there, disabled={disableControls || saving})
handleResetUsage(index, confirmed) ==
    /\ RateLimitsCards
    /\ ~disableControls
    /\ ~saving
    /\ InRange(configs, index)
    /\ has(usage, configs[index + 1].key)
    /\ IF ~confirmed
       THEN /\ Step("return")
            /\ UNCHANGED <<saving, inflight>>
       ELSE /\ saving' = TRUE
            /\ Issue(Request("resetUsage", configs[index + 1].key, NoBody, <<>>))
    /\ UNCHANGED <<page, connectionStatus, routingOnly, rateLimitsOnly, notification,
                   loading, error, modalOpen, formData, authIdInput, remote>>

\* handleResetUsage emptying the usage map
ResetUsageSettled_clearsAll(n) ==
    /\ OnRateLimits
    /\ Settled(n, {"resetUsage"})
    /\ IF inflight[n].phase = "ok"
       THEN /\ usage' = <<>>
            /\ notification' = "success"
       ELSE /\ usage' = usage
            /\ notification' = "error"
    /\ saving' = FALSE
    /\ Settle(n)
    /\ UNCHANGED <<page, connectionStatus, routingOnly, loading, error, configs,
                   rateLimiting, editingKey, providerInput, statusCodeInput,
                   persistencePathInput, modalOpen, formData, authIdInput, remote>>

\* handleResetUsage, from the await on
ResetUsageSettled(n) ==
    /\ OnRateLimits
    /\ Settled(n, {"resetUsage"})
    /\ IF inflight[n].phase = "ok"
       THEN /\ usage' = without(usage, inflight[n].index)
            /\ notification' = "success"
       ELSE /\ usage' = usage
            /\ notification' = "error"
    /\ saving' = FALSE
    /\ Settle(n)
    /\ UNCHANGED <<page, connectionStatus, routingOnly, loading, error, configs,
                   rateLimiting, editingKey, providerInput, statusCodeInput,
                   persistencePathInput, modalOpen, formData, authIdInput, remote>>

----------------------------------------------------------------------------
(* The session *)

\* useAuthStore: the connection status changes under the page
ConnectionChange ==
    /\ connectionStatus' = IF connectionStatus = "connected" THEN "disconnected" ELSE "connected"
    /\ Step("connection")
    /\ UNCHANGED <<page, rateLimitsOnly, notification, pageVars, routingData, ruleModal, bindModal,
                   remote, inflight>>

\* the cells of the rate-limits page while the routing page is the mounted one
RateLimitsUnmounted ==
    /\ configs = <<>> /\ rateLimiting = [enabled |-> TRUE] /\ usage = <<>>
    /\ editingKey = NoKey /\ providerInput = <<>>
    /\ statusCodeInput = <<"4", "2", "9">> /\ persistencePathInput = <<>>

\* The routing page once mounted: the useState initial values, and loadRouting
\* called by the mount effect.
InitRouting ==
    /\ page = "routing"
    /\ loading = TRUE /\ error = "" /\ saving = FALSE
    /\ strategy = "round-robin" /\ rules = <<>> /\ bindings = <<>>
    /\ modalOpen = FALSE /\ editingIndex = Null /\ formData = emptyRuleForm
    /\ modelInput = <<>> /\ orderInput = <<>>
    /\ bindingModalOpen = FALSE /\ editingBindingIndex = Null
    /\ bindingFormData = emptyBindingForm /\ authIdInput = <<>>
    /\ RateLimitsUnmounted
    /\ inflight = << Request("getConfig", Null, NoBody, <<>>) >>
    /\ issued = 0
    /\ loaded = FALSE
    /\ opened = NoneOpened

InitSession ==
    /\ connectionStatus = "connected"
    /\ notification = "none"
    /\ last = [op |-> "other", req |-> NoReq]

Init ==
    /\ InitSession
    /\ remote \in InitRemotes
    /\ InitRouting
    /\ budget = MaxRequests

\* Texts the operator types into the inputs of the page
OrderTexts  == { <<"a">> }
AuthIdTexts == { <<"a">> }
KeyTexts    == { <<"k", " ">> }

NextRouting ==
    \/ RefreshRouting
    \/ \E n \in DOMAIN inflight : LoadRoutingSettled(n)
    \/ \E s \in RoutingStrategy : handleStrategyChange(s)
    \/ \E n \in DOMAIN inflight : StrategyChangeSettled(n)
    \/ openAddModal
    \/ \E i \in 0..(Len(rules) - 1) : openEditModal(i)
    \/ closeModal
    \/ \E t \in OrderTexts : setOrderInput(t)
    \/ handleAddTag("order")
    \/ handleSave
    \/ \E n \in DOMAIN inflight : SaveRuleSettled(n)
    \/ \E i \in 0..(Len(rules) - 1), c \in BOOLEAN : handleDelete(i, c)
    \/ \E n \in DOMAIN inflight : DeleteRuleSettled(n)
    \/ openAddBindingModal
    \/ \E i \in 0..(Len(bindings) - 1) : openEditBindingModal(i)
    \/ closeBindingModal
    \/ \E t \in KeyTexts : setBindingApiKey(t)
    \/ \E t \in AuthIdTexts : setAuthIdInput(t)
    \/ handleAddAuthId
    \/ handleSaveBinding
    \/ \E n \in DOMAIN inflight : SaveBindingSettled(n)
    \/ \E i \in 0..(Len(bindings) - 1), c \in BOOLEAN : handleDeleteBinding(i, c)
    \/ \E n \in DOMAIN inflight : DeleteBindingSettled(n)

\* The routing page in a session that stays connected.  The connection status
\* only disables controls, so every run with status changes is, on the other
\* variables, a run of this specification.
Next ==
    \/ NextRouting
    \/ \E n \in DOMAIN inflight : Serve(n)

Spec == Init /\ [][Next]_vars

\* a session one request shorter, for the specifications with more kinds of step
InitShort ==
    /\ InitSession
    /\ remote \in InitRemotes
    /\ InitRouting
    /\ budget = MaxRequests - 1

\* The routing page with the connection status changing under it and the
\* operator typing more kinds of text.
SessionKeyTexts == { <<"x">>, <<" ">> }

NextSession ==
    \/ Next
    \/ ConnectionChange
    \/ \E t \in SessionKeyTexts : setBindingApiKey(t)
    \/ \E i \in 0..(Len(formData.order) - 1) : handleRemoveTag("order", i)
    \/ \E i \in 0..(Len(bindingFormData.authIds) - 1) : handleRemoveAuthId(i)

SpecSession == InitShort /\ [][NextSession]_vars

\* The routing page with the operator filling every field of the two forms.
ModelTexts == { <<"m">> }

NextRoutingForms ==
    \/ Next
    \/ \E t \in ModelTexts : setModelInput(t)
    \/ handleAddTag("models")
    \/ \E i \in 0..(Len(formData.models) - 1) : handleRemoveTag("models", i)
    \/ toggleRuleFallback
    \/ toggleBindingFallback

SpecRoutingForms == InitShort /\ [][NextRoutingForms]_vars

\* The routing page in a session one request longer, over the shorter lists.
InitDeep ==
    /\ InitSession
    /\ remote = RemoteShort
    /\ InitRouting
    /\ budget = MaxRequests + 1

SpecDeep == InitDeep /\ [][Next]_vars

----------------------------------------------------------------------------
(* The rate-limits page in a session *)

\* the cells of the routing page while the rate-limits page is the mounted one
RoutingUnmounted ==
    /\ strategy = "round-robin" /\ rules = <<>> /\ bindings = <<>>
    /\ editingIndex = Null /\ modelInput = <<>> /\ orderInput = <<>>
    /\ bindingModalOpen = FALSE /\ editingBindingIndex = Null
    /\ bindingFormData = emptyBindingForm

\* The rate-limits page once mounted: the useState initial values, and
\* loadData called by the mount effect.
InitRateLimitsPage ==
    /\ page = "rateLimits"
    /\ loading = TRUE /\ error = "" /\ saving = FALSE
    /\ configs = <<>> /\ rateLimiting = [enabled |-> TRUE] /\ usage = <<>>
    /\ modalOpen = FALSE /\ editingKey = NoKey /\ formData = emptyConfigForm
    /\ providerInput = <<>> /\ authIdInput = <<>>
    /\ statusCodeInput = <<"4", "2", "9">> /\ persistencePathInput = <<>>
    /\ RoutingUnmounted
    /\ inflight = << Request("loadData", Null, NoBody, <<>>) >>
    /\ issued = 0
    /\ loaded = FALSE
    /\ opened = NoneOpened

InitRateLimits ==
    /\ InitSession
    /\ remote \in InitRateLimitRemotes
    /\ InitRateLimitsPage
    /\ budget = MaxRequests

ConfigKeyTexts == { <<"a">> }
LimitTexts     == { <<"7">> }
ProviderTexts  == { <<"p">> }
StatusTexts    == { <<"0">> }
PathTexts      == { <<" ", "d">> }

NextRateLimits ==
    \/ RefreshData
    \/ \E n \in DOMAIN inflight : LoadDataSettled(n)
    \/ handleToggleEnabled
    \/ \E n \in DOMAIN inflight : ToggleEnabledSettled(n)
    \/ handleSaveGlobalSettings
    \/ \E n \in DOMAIN inflight : GlobalSettingsSettled(n)
    \/ RateLimits_openAddModal
    \/ \E i \in 0..(Len(configs) - 1) : RateLimits_openEditModal(i)
    \/ RateLimits_closeModal
    \/ \E t \in ConfigKeyTexts : setFormText("key", t)
    \/ RateLimits_handleSave
    \/ \E n \in DOMAIN inflight : SaveConfigSettled(n)
    \/ \E i \in 0..(Len(configs) - 1), c \in BOOLEAN : RateLimits_handleDelete(i, c)
    \/ \E n \in DOMAIN inflight : DeleteConfigSettled(n)
    \/ \E i \in 0..(Len(configs) - 1), c \in BOOLEAN : handleResetUsage(i, c)
    \/ \E n \in DOMAIN inflight : ResetUsageSettled(n)
    \/ \E n \in DOMAIN inflight : Serve(n)

SpecRateLimits == InitRateLimits /\ [][NextRateLimits]_vars

\* The rate-limits page with the operator typing into the forms as well.
NextRateLimitsForms ==
    \/ NextRateLimits
    \/ \E t \in StatusTexts : setStatusCodeInput(t)
    \/ \E t \in PathTexts : setPersistencePathInput(t)
    \/ \E t \in LimitTexts : setFormText("requestsPerDay", t)
    \/ \E t \in ProviderTexts : setProviderInput(t)
    \/ RateLimits_handleAddTag("allowedProviders")
    \/ \E i \in 0..(Len(formData.allowedProviders) - 1) :
            RateLimits_handleRemoveTag("allowedProviders", i)

SpecRateLimitsForms == InitRateLimits /\ [][NextRateLimitsForms]_vars

----------------------------------------------------------------------------
(* The tag editors of both pages *)

\* Either page once mounted, in a session in which the operator issues no
\* request and works in the forms.
InitTags ==
    /\ InitSession
    /\ budget = 0
    /\ \/ remote \in {RemoteShort, RemoteLong, RemoteRepeat} /\ InitRouting
       \/ remote \in InitRateLimitRemotes /\ InitRateLimitsPage

\* texts typed into the tag inputs: a tag, a tag of another case between
\* spaces, and a blank text
TagTexts == { <<"a">>, <<" ", "A", " ">>, <<" ">> }

RuleTagFields   == {"models", "order"}
ConfigTagFields == {"allowedProviders", "authIds"}

\* the list of a tag editor and its pending input
TagList(field) ==
    IF field = "bindingAuthIds" THEN bindingFormData.authIds ELSE formData[field]

TagBuffer(field) ==
    CASE field = "models"           -> modelInput
      [] field = "order"            -> orderInput
      [] field = "allowedProviders" -> providerInput
      [] OTHER                      -> authIdInput

\* the indexes a remove button is tried with: every position of the list, and
\* one position before and one after it
RemoveIndexes(field) ==
    IF field \in DOMAIN formData THEN -1..Len(formData[field]) ELSE {}

NextTags ==
    \/ \E n \in DOMAIN inflight : Serve(n)
    \/ \E n \in DOMAIN inflight : LoadRoutingSettled(n)
    \/ \E n \in DOMAIN inflight : LoadDataSettled(n)
    \/ openAddModal
    \/ \E i \in 0..(Len(rules) - 1) : openEditModal(i)
    \/ closeModal
    \/ \E t \in TagTexts : setModelInput(t)
    \/ \E t \in TagTexts : setOrderInput(t)
    \/ \E f \in RuleTagFields : handleAddTag(f)
    \/ \E f \in RuleTagFields : \E i \in RemoveIndexes(f) : handleRemoveTag(f, i)
    \/ openAddBindingModal
    \/ \E i \in 0..(Len(bindings) - 1) : openEditBindingModal(i)
    \/ closeBindingModal
    \/ \E t \in TagTexts : setAuthIdInput(t)
    \/ handleAddAuthId
    \/ \E i \in -1..Len(bindingFormData.authIds) : handleRemoveAuthId(i)
    \/ RateLimits_openAddModal
    \/ \E i \in 0..(Len(configs) - 1) : RateLimits_openEditModal(i)
    \/ RateLimits_closeModal
    \/ \E t \in TagTexts : setProviderInput(t)
    \/ \E t \in TagTexts : RateLimits_setAuthIdInput(t)
    \/ \E f \in ConfigTagFields : RateLimits_handleAddTag(f)
    \/ \E f \in ConfigTagFields : \E i \in RemoveIndexes(f) :
            RateLimits_handleRemoveTag(f, i)

SpecTags == InitTags /\ [][NextTags]_vars

----------------------------------------------------------------------------
(* The forms of both pages up to their submit *)

\* Either page once mounted, in a session in which the operator fills the
\* forms and one submit is sent.
InitSubmit ==
    /\ InitSession
    /\ budget = 1
    /\ \/ remote \in {RemoteLong, RemoteStrict} /\ InitRouting
       \/ remote \in InitRateLimitRemotes /\ InitRateLimitsPage

\* texts typed into the api-key and key inputs: a key with a space after it,
\* a key with a space before it, a text of spaces
SubmitKeyTexts == { <<"k", " ">>, <<" ", "c">>, <<" ">> }

\* texts of the limit inputs (type="number"): cleared, zero, a number of two digits
SubmitLimitTexts == { <<>>, <<"0">>, <<"1", "0">> }

LimitFields == {"requestsPerDay", "requestsPerMonth", "tokensPerDay", "tokensPerMonth"}

\* the positions of a list of the form
ListIndexes(form, field) ==
    IF field \in DOMAIN form THEN 0..(Len(form[field]) - 1) ELSE {}

\* what the operator does in the forms
FillRuleForm ==
    \/ openAddModal
    \/ \E i \in 0..(Len(rules) - 1) : openEditModal(i)
    \/ closeModal
    \/ \E t \in ModelTexts : setModelInput(t)
    \/ \E t \in OrderTexts : setOrderInput(t)
    \/ \E f \in RuleTagFields : handleAddTag(f)
    \/ \E f \in RuleTagFields : \E i \in ListIndexes(formData, f) : handleRemoveTag(f, i)
    \/ toggleRuleFallback
    \/ handleSave

FillBindingForm ==
    \/ openAddBindingModal
    \/ \E i \in 0..(Len(bindings) - 1) : openEditBindingModal(i)
    \/ closeBindingModal
    \/ \E t \in SubmitKeyTexts : setBindingApiKey(t)
    \/ \E t \in AuthIdTexts : setAuthIdInput(t)
    \/ handleAddAuthId
    \/ \E i \in 0..(Len(bindingFormData.authIds) - 1) : handleRemoveAuthId(i)
    \/ toggleBindingFallback
    \/ handleSaveBinding

FillConfigForm ==
    \/ RateLimits_openAddModal
    \/ \E i \in 0..(Len(configs) - 1) : RateLimits_openEditModal(i)
    \/ RateLimits_closeModal
    \/ \E t \in SubmitKeyTexts : setFormText("key", t)
    \/ \E f \in LimitFields, t \in SubmitLimitTexts : setFormText(f, t)
    \/ RateLimits_handleSave

\* the operator works in the forms until a submit is sent; the store answers
\* and the handlers resume
NextSubmit ==
    \/ \E n \in DOMAIN inflight : Serve(n)
    \/ \E n \in DOMAIN inflight : LoadRoutingSettled(n)
    \/ \E n \in DOMAIN inflight : LoadDataSettled(n)
    \/ issued < budget /\ FillRuleForm
    \/ \E n \in DOMAIN inflight : SaveRuleSettled(n)
    \/ issued < budget /\ FillBindingForm
    \/ \E n \in DOMAIN inflight : SaveBindingSettled(n)
    \/ issued < budget /\ FillConfigForm
    \/ \E n \in DOMAIN inflight : SaveConfigSettled(n)

SpecSubmit == InitSubmit /\ [][NextSubmit]_vars

----------------------------------------------------------------------------
(* The global settings and the usage of the rate-limits page *)

InitGlobal ==
    /\ InitSession
    /\ remote \in InitRateLimitRemotes \cup {RemoteMetered}
    /\ InitRateLimitsPage
    /\ budget = MaxRequests

\* texts of the status code input (type="number"): cleared, zero, a status code
GlobalStatusTexts == { <<>>, <<"0">>, <<"5", "0", "0">> }

\* texts of the persistence path input: spaces, a path after a space
GlobalPathTexts == { <<" ">>, <<" ", "d">> }

NextGlobal ==
    \/ \E n \in DOMAIN inflight : Serve(n)
    \/ \E n \in DOMAIN inflight : LoadDataSettled(n)
    \/ RefreshData
    \/ handleToggleEnabled
    \/ \E n \in DOMAIN inflight : ToggleEnabledSettled(n)
    \/ \E t \in GlobalStatusTexts : setStatusCodeInput(t)
    \/ \E t \in GlobalPathTexts : setPersistencePathInput(t)
    \/ handleSaveGlobalSettings
    \/ \E n \in DOMAIN inflight : GlobalSettingsSettled(n)
    \/ \E i \in 0..(Len(configs) - 1), c \in BOOLEAN : handleResetUsage(i, c)
    \/ \E n \in DOMAIN inflight : ResetUsageSettled(n)

SpecGlobal == InitGlobal /\ [][NextGlobal]_vars

----------------------------------------------------------------------------
(* The usage bars of the rate-limits page *)

\* Math.round of the quotient a / b of two integers, b > 0: the nearest
\* integer, the upper one of two equally near
roundQuotient(a, b) == (2 * a + b) \div (2 * b)

\* Math.min
min(a, b) == IF a <= b THEN a ELSE b

\* getUsagePercent(used, limit); limit is Null when undefined.  The quotient
\* is taken exactly.
getUsagePercent(used, limit) ==
    IF limit = Null \/ limit = 0 THEN 0
    ELSE min(100, roundQuotient(used * 100, limit))

\* getUsageClass with the bounds of its tiers excluded
getUsageClass_above(percent) ==
    IF percent > 90 THEN "high"
    ELSE IF percent > 70 THEN "medium"
         ELSE "low"

\* getUsageClass(percent)
getUsageClass(percent) ==
    IF percent >= 90 THEN "high"
    ELSE IF percent >= 70 THEN "medium"
         ELSE "low"

\* config.limits?.['requests-per-day']
requestsPerDayOf(config) ==
    IF has(config, "limits") /\ has(config.limits, "requests-per-day")
    THEN config.limits["requests-per-day"] ELSE Null

\* the bar of requests per day of a config row: the width and the class of its fill
usageBar(config) ==
    LET percent == getUsagePercent(usage[config.key].requests_today, requestsPerDayOf(config))
    IN  [percent |-> percent, class |-> getUsageClass(percent)]

\* the requests counted today and the daily limits the store may hold
UsedValues  == {-1, 0, 1, 69, 70, 89, 90, 101, 450}
LimitValues == {Null, 0, 2, 100, 500}

\* a store with one key, its count of today and its daily limit
UsageRemote(used, limit) ==
    [api_key_configs |->
        << [key |-> <<"a">>]
             @@ (IF limit = Null THEN <<>> ELSE [limits |-> ("requests-per-day" :> limit)]) >>,
     rate_limiting |-> [enabled |-> TRUE],
     usage |-> (<<"a">> :> [requests_today |-> used, requests_month |-> used,
                            tokens_today |-> 0, tokens_month |-> 0])]

InitUsage ==
    /\ InitSession
    /\ remote \in { UsageRemote(u, l) : u \in UsedValues, l \in LimitValues }
    /\ InitRateLimitsPage
    /\ budget = 0

NextUsage ==
    \/ \E n \in DOMAIN inflight : Serve(n)
    \/ \E n \in DOMAIN inflight : LoadDataSettled(n)

SpecUsage == InitUsage /\ [][NextUsage]_vars

----------------------------------------------------------------------------
(* The load and the strategy of the routing page *)

InitStrategy ==
    /\ InitSession
    /\ remote \in {RemoteShort, RemoteLong, RemoteFresh, RemoteUnset}
    /\ InitRouting
    /\ budget = MaxRequests

\* the strategy options shown active: strategy === opt.value
activeOptions == {opt \in RoutingStrategy : strategy = opt}

\* the rule rows: one per rule, with the default label or the models joined
ruleRows ==
    [j \in DOMAIN rules |->
        [index |-> j,
         label |-> IF Len(rules[j].models) > 0 THEN "models" ELSE "default"]]

NextStrategy ==
    \/ \E n \in DOMAIN inflight : Serve(n)
    \/ \E n \in DOMAIN inflight : LoadRoutingSettled(n)
    \/ RefreshRouting
    \/ \E st \in RoutingStrategy : handleStrategyChange(st)
    \/ \E n \in DOMAIN inflight : StrategyChangeSettled(n)
    \/ ConnectionChange

SpecStrategy == InitStrategy /\ [][NextStrategy]_vars

----------------------------------------------------------------------------
(* Navigation between the two pages *)

\* the api calls of the routing page; every other call is the rate-limits page's
RoutingKinds ==
    {"getConfig", "updateStrategy", "addPriorityRule", "updatePriorityRule",
     "deletePriorityRule", "addBinding", "updateBinding", "deleteBinding"}

PageOf(kind) == IF kind \in RoutingKinds THEN "routing" ELSE "rateLimits"

\* a store that holds the routing config and the rate limits
InitNavigateRemotes == { RemoteShort @@ r : r \in InitRateLimitRemotes }

\* The operator navigates to the other page: the mounted component is
\* unmounted with its cells, the other one is mounted with its useState
\* initial values and its mount effect calls its load.  The calls of the page
\* left are not cancelled.  (Taken only when no call of an earlier visit of
\* the page left is pending, so that the kind of a call tells whether the
\* mounted component issued it.)
Navigate ==
    /\ \A n \in DOMAIN inflight : PageOf(inflight[n].kind) = page
    /\ page' = IF OnRouting THEN "rateLimits" ELSE "routing"
    /\ loading' = TRUE /\ error' = "" /\ saving' = FALSE
    /\ strategy' = "round-robin" /\ rules' = <<>> /\ bindings' = <<>>
    /\ modalOpen' = FALSE /\ editingIndex' = Null
    /\ formData' = IF OnRouting THEN emptyConfigForm ELSE emptyRuleForm
    /\ modelInput' = <<>> /\ orderInput' = <<>>
    /\ bindingModalOpen' = FALSE /\ editingBindingIndex' = Null
    /\ bindingFormData' = emptyBindingForm /\ authIdInput' = <<>>
    /\ configs' = <<>> /\ rateLimiting' = [enabled |-> TRUE] /\ usage' = <<>>
    /\ editingKey' = NoKey /\ providerInput' = <<>>
    /\ statusCodeInput' = <<"4", "2", "9">> /\ persistencePathInput' = <<>>
    /\ inflight' = Append(inflight,
                          [kind |-> IF OnRouting THEN "loadData" ELSE "getConfig",
                           index |-> Null, body |-> NoBody, closure |-> <<>>,
                           phase |-> "sent", result |-> NoBody, at |-> Shown'])
    /\ loaded' = FALSE
    /\ opened' = NoneOpened
    /\ last' = [op |-> "navigate", req |-> NoReq]
    /\ UNCHANGED <<connectionStatus, notification, remote, issued, budget>>

\* A handler of the page left resumes from its await.  Its state setters act
\* on an unmounted component and change nothing; showNotification is the
\* action of the notification store of the session, and every handler of a
\* mutating call calls it in its try or in its catch block.  The two loads
\* call state setters only.
OrphanSettled(n) ==
    /\ n \in DOMAIN inflight
    /\ PageOf(inflight[n].kind) # page
    /\ inflight[n].phase \in {"ok", "fail"}
    /\ notification' = IF inflight[n].kind \in Mutating
                       THEN (IF inflight[n].phase = "ok" THEN "success" ELSE "error")
                       ELSE notification
    /\ inflight' = removeAt(inflight, n)
    /\ last' = [op |-> "orphan", req |-> inflight[n]]
    /\ UNCHANGED <<page, connectionStatus, pageVars, routingData, ruleModal, bindModal,
                   rateLimitsOnly, remote, issued, budget, loaded, opened>>

\* Either page is the one mounted first.
InitNavigate ==
    /\ InitSession
    /\ remote \in InitNavigateRemotes
    /\ InitRouting \/ InitRateLimitsPage
    /\ budget = MaxRequests

NextNavigate ==
    \/ Navigate
    \/ \E n \in DOMAIN inflight : OrphanSettled(n)
    \/ \E n \in DOMAIN inflight : Serve(n)
    \/ \E n \in DOMAIN inflight : LoadRoutingSettled(n)
    \/ \E s \in RoutingStrategy : handleStrategyChange(s)
    \/ \E n \in DOMAIN inflight : StrategyChangeSettled(n)
    \/ \E i \in 0..(Len(rules) - 1), c \in BOOLEAN : handleDelete(i, c)
    \/ \E n \in DOMAIN inflight : DeleteRuleSettled(n)
    \/ \E n \in DOMAIN inflight : LoadDataSettled(n)
    \/ handleToggleEnabled
    \/ \E n \in DOMAIN inflight : ToggleEnabledSettled(n)

SpecNavigate == InitNavigate /\ [][NextNavigate]_vars

----------------------------------------------------------------------------
(* A second session mutating the store *)

\* Another session deletes the first element of a remote list, or reorders
\* the two elements of one, after this session's load and before its own
\* mutation.  The other session adds nothing, so the elements of a remote
\* list stay distinct.
ForeignSession ==
    /\ loaded /\ issued = 0 /\ inflight = <<>>
    /\ \/ /\ Len(remote.priority) = 2
          /\ remote' = [remote EXCEPT !.priority = removeAt(@, 1)]
       \/ /\ remote.priority = <<RuleM, RuleDefault>>
          /\ remote' = [remote EXCEPT !.priority = <<RuleDefault, RuleM>>]
       \/ /\ Len(remote.bindings) = 2
          /\ remote' = [remote EXCEPT !.bindings = removeAt(@, 1)]
       \/ /\ remote.bindings = <<BindJ, BindK>>
          /\ remote' = [remote EXCEPT !.bindings = <<BindK, BindJ>>]
    /\ Step("foreign")
    /\ UNCHANGED <<page, rateLimitsOnly, connectionStatus, notification, pageVars, routingData,
                   ruleModal, bindModal, inflight>>

\* The routing page loaded from the two-element lists; the operator issues
\* one request.
InitForeign ==
    /\ InitSession
    /\ remote = RemoteLong
    /\ InitRouting
    /\ budget = 1

NextForeign ==
    \/ ForeignSession
    \/ \E n \in DOMAIN inflight : Serve(n)
    \/ \E n \in DOMAIN inflight : LoadRoutingSettled(n)
    \/ \E i \in 0..(Len(rules) - 1) : openEditModal(i)
    \/ closeModal
    \/ \E t \in OrderTexts : setOrderInput(t)
    \/ handleAddTag("order")
    \/ handleSave
    \/ \E n \in DOMAIN inflight : SaveRuleSettled(n)
    \/ \E i \in 0..(Len(rules) - 1), c \in BOOLEAN : handleDelete(i, c)
    \/ \E n \in DOMAIN inflight : DeleteRuleSettled(n)
    \/ \E i \in 0..(Len(bindings) - 1) : openEditBindingModal(i)
    \/ closeBindingModal
    \/ handleSaveBinding
    \/ \E n \in DOMAIN inflight : SaveBindingSettled(n)
    \/ \E i \in 0..(Len(bindings) - 1), c \in BOOLEAN : handleDeleteBinding(i, c)
    \/ \E n \in DOMAIN inflight : DeleteBindingSettled(n)

SpecForeign == InitForeign /\ [][NextForeign]_vars

----------------------------------------------------------------------------
(* Either page with every request resolving *)

\* Either page once mounted.
InitLive ==
    /\ InitSession
    /\ remote \in InitNavigateRemotes
    /\ InitRouting \/ InitRateLimitsPage
    /\ budget = MaxRequests

\* the store serves a request, or the handler awaiting one resumes
Resolve ==
    \E n \in DOMAIN inflight :
        \/ Serve(n)
        \/ LoadRoutingSettled(n)
        \/ SaveRuleSettled(n)
        \/ DeleteRuleSettled(n)
        \/ LoadDataSettled(n)
        \/ ToggleEnabledSettled(n)
        \/ GlobalSettingsSettled(n)

NextLive ==
    \/ Resolve
    \/ RefreshRouting
    \/ \E i \in 0..(Len(rules) - 1) : openEditModal(i)
    \/ closeModal
    \/ handleSave
    \/ \E i \in 0..(Len(rules) - 1), c \in BOOLEAN : handleDelete(i, c)
    \/ RefreshData
    \/ handleToggleEnabled
    \/ \E t \in StatusTexts : setStatusCodeInput(t)
    \/ handleSaveGlobalSettings

\* the phases of the requests in flight, which every step of Resolve changes
phases == [n \in DOMAIN inflight |-> inflight[n].phase]

\* Every request issued resolves: while one is in flight, the store
\* eventually serves one and a handler eventually resumes.
SpecLive == InitLive /\ [][NextLive]_vars /\ WF_phases(Resolve)

----------------------------------------------------------------------------
(* Edit and save without a change *)

\* a binding whose api-key was stored with a space after it
BindSpaced == [api_key |-> <<"j", " ">>, auth_ids |-> << <<"b">> >>, fallback |-> TRUE]
RemoteSpaced ==
    [strategy |-> "round-robin", priority |-> <<RuleStrict, RuleDefault>>,
     bindings |-> <<BindK, BindSpaced>>]

\* The routing page, with the operator opening rows for edit and saving them
\* as they are.
InitRoundTrip ==
    /\ InitSession
    /\ remote \in {RemoteLong, RemoteSpaced}
    /\ InitRouting
    /\ budget = 1

NextRoundTrip ==
    \/ \E n \in DOMAIN inflight : Serve(n)
    \/ \E n \in DOMAIN inflight : LoadRoutingSettled(n)
    \/ \E i \in 0..(Len(rules) - 1) : openEditModal(i)
    \/ closeModal
    \/ handleSave
    \/ \E n \in DOMAIN inflight : SaveRuleSettled(n)
    \/ \E i \in 0..(Len(bindings) - 1) : openEditBindingModal(i)
    \/ closeBindingModal
    \/ handleSaveBinding
    \/ \E n \in DOMAIN inflight : SaveBindingSettled(n)

SpecRoundTrip == InitRoundTrip /\ [][NextRoundTrip]_vars

----------------------------------------------------------------------------
(* Either page with every mutation *)

\* Either page once mounted, with every action of the page.
InitFrame ==
    /\ InitSession
    /\ \/ remote = RemoteShort @@ RemoteMetered /\ InitRouting
       \/ remote \in InitNavigateRemotes /\ InitRateLimitsPage
    /\ budget = MaxRequests

NextFrame ==
    \/ NextRouting
    \/ NextRateLimits

SpecFrame == InitFrame /\ [][NextFrame]_vars

----------------------------------------------------------------------------
(* Claims *)

SettledLast(kinds, phase) ==
    /\ last.op = "settle"
    /\ last.req.kind \in kinds
    /\ last.req.phase = phase

IssuedLast(kinds) == last.op = "issue" /\ last.req.kind \in kinds

\* C1 (as stated): after a successful load, whenever no request is in flight
\* the local rules equal the remote priority list and the local bindings the
\* remote bindings, element for element.
C1_ListsAgreeWhenQuiet ==
    (OnRouting /\ loaded /\ inflight = <<>>) =>
        (rules = remote.priority /\ bindings = remote.bindings)

\* C2 (as stated): at most one mutating request is unresolved at any time.
Unresolved == {n \in DOMAIN inflight : inflight[n].kind \in Mutating}

C2_OneMutationAtATime == Cardinality(Unresolved) <= 1

\* C4 (as stated): a mutating request is issued only while the connection
\* status is 'connected'.
C4_IssuedOnlyConnected == IssuedLast(Mutating) => connectionStatus = "connected"

\* C3 (as stated): when the remote call of a mutating action has failed, the
\* page's data has the values it had when the action was issued, and an error
\* notification is raised.
C3_FailureKeepsIssueValues ==
    SettledLast(Mutating, "fail") => (Shown = last.req.at /\ notification = "error")

\* the list `after` is `before` with `entity` appended: every element of
\* `before` keeps its position and value, and `entity` is last
IsAppended(after, before, entity) ==
    /\ Len(after) = Len(before) + 1
    /\ \A j \in 1..Len(before) : after[j] = before[j]
    /\ after[Len(after)] = entity

\* C5: when adding a priority rule (or binding) has succeeded remotely, the
\* local list is the list shown when the operator saved, with the submitted
\* entity appended as its last element.
C5_CreateAppends ==
    /\ SettledLast({"addPriorityRule"}, "ok") =>
           IsAppended(rules, last.req.at.rules, last.req.body)
    /\ SettledLast({"addBinding"}, "ok") =>
           IsAppended(bindings, last.req.at.bindings, last.req.body)

C5_Witness ==
    /\ SettledLast({"addPriorityRule"}, "ok")
    /\ Len(last.req.at.rules) >= 1

\* the list `after` is `before` with `entity` at index i and nothing else changed
IsReplacedAt(after, before, i, entity) ==
    /\ Len(after) = Len(before)
    /\ InRange(after, i)
    /\ after[i + 1] = entity
    /\ \A j \in 1..Len(before) : j # i + 1 => after[j] = before[j]

\* C6 (as stated): saving an edit opened on row i issues a replace-at-index
\* request with index i, and on success the local list has the submitted value
\* at position i, the same length, and every other position unchanged.
C6_UpdateReplacesAtIndex ==
    /\ IssuedLast({"updatePriorityRule", "updateBinding"}) => last.req.index = opened.index
    /\ SettledLast({"updatePriorityRule"}, "ok") =>
           IsReplacedAt(rules, last.req.at.rules, last.req.index, last.req.body)
    /\ SettledLast({"updateBinding"}, "ok") =>
           IsReplacedAt(bindings, last.req.at.bindings, last.req.index, last.req.body)

\* the list `after` is `before` without its element at index i, the others in
\* their order
IsRemovedAt(after, before, i) ==
    /\ Len(after) = Len(before) - 1
    /\ \A j \in 1..Len(after) : after[j] = IF j <= i THEN before[j] ELSE before[j + 1]

\* C7: a successful delete of the rule (or binding) at index i of a list of
\* length n, 0 <= i < n, leaves a local list of length n - 1: the original
\* without the element at i, the others in their relative order.
C7_DeleteRemovesAtIndex ==
    /\ SettledLast({"deletePriorityRule"}, "ok") =>
           /\ InRange(last.req.at.rules, last.req.index)
           /\ IsRemovedAt(rules, last.req.at.rules, last.req.index)
    /\ SettledLast({"deleteBinding"}, "ok") =>
           /\ InRange(last.req.at.bindings, last.req.index)
           /\ IsRemovedAt(bindings, last.req.at.bindings, last.req.index)

C7_Witness ==
    /\ SettledLast({"deletePriorityRule"}, "ok")
    /\ Len(last.req.at.rules) = 2
    /\ last.req.index = 0

\* C9 (as stated): the binding an update submits carries the api-key that the
\* binding had when the edit was opened.
C9_UpdateKeepsApiKey ==
    IssuedLast({"updateBinding"}) => last.req.body.api_key = opened.entity.api_key

\* C8: ApiKeyConfig reconciliation is by key equality: the step in which a
\* successful delete of key k resumes leaves the local entries whose key is
\* not k, in their order; a successful update of the key edited replaces
\* exactly the entries of that key; a successful create appends the new entry.
C8_ReconciledByKey ==
    [][ /\ SettledLast({"deleteConfig"}, "ok")' =>
              configs' = SelectSeq(configs, LAMBDA c : c.key # last'.req.index)
        /\ SettledLast({"updateConfig"}, "ok")' =>
              /\ Len(configs') = Len(configs)
              /\ \A j \in DOMAIN configs :
                    configs'[j] = IF configs[j].key = last'.req.index
                                  THEN last'.req.body ELSE configs[j]
        /\ SettledLast({"addConfig"}, "ok")' =>
              IsAppended(configs', configs, last'.req.body) ]_vars

\* an update of the second of two entries has resumed
C8_Witness ==
    /\ SettledLast({"updateConfig"}, "ok")
    /\ Len(configs) = 2
    /\ last.req.at.configs[2].key = last.req.index

\* C10 (as stated): an edit opened on the config of key k issues an update
\* addressed to k, never a create, and the entry the successful update leaves
\* in the local list has key exactly k.
C10_KeyImmutable ==
    /\ (IssuedLast({"addConfig", "updateConfig"}) /\ opened.index # NoKey) =>
           (last.req.kind = "updateConfig" /\ last.req.index = opened.index)
    /\ SettledLast({"updateConfig"}, "ok") => last.req.body.key = last.req.index

\* the keys of the entries are pairwise distinct
DistinctKeys(list) ==
    \A i, j \in DOMAIN list : list[i].key = list[j].key => i = j

\* C11 (as stated): a successful create, update or delete leaves a local
\* ApiKeyConfig list of pairwise distinct keys, when the list shown at the
\* submit had pairwise distinct keys and, for a create, did not hold the new key.
C11_LocalKeysUnique ==
    ( /\ SettledLast({"addConfig", "updateConfig", "deleteConfig"}, "ok")
      /\ DistinctKeys(last.req.at.configs)
      /\ last.req.kind = "addConfig" => ~HasKey(last.req.at.configs, last.req.body.key) )
    => DistinctKeys(configs)

\* the step just taken is handleAddTag (or handleAddAuthId) / handleRemoveTag
\* (or handleRemoveAuthId)
Added   == last.op = "tag"
Removed == last.op = "untag"

\* C12: add(s) leaves the tag list unchanged iff trim(s) is empty or already
\* in the list (exact match); otherwise the list is the former list with
\* trim(s) appended. In each of the editors of the two pages.
C12_AddAppendsTrimmed ==
    Added =>
        LET t      == trim(last.raw)
            before == last.before
            now    == TagList(last.field) IN
        /\ (now = before) <=> (t = <<>> \/ \E j \in DOMAIN before : before[j] = t)
        /\ now # before => now = Append(before, t)

\* a text between spaces is added to a list that holds its trimmed value in
\* another case only
C12_Witness ==
    /\ Added
    /\ last.raw = <<" ", "A", " ">>
    /\ last.before = << <<"a">> >>
    /\ TagList(last.field) = << <<"a">>, <<"A">> >>

\* C13 (as stated): add(raw) clears the input buffer exactly when it appends;
\* when it appends nothing the buffer is left as it was.
C13_ClearsOnlyOnAppend ==
    Added =>
        IF TagList(last.field) # last.before
        THEN TagBuffer(last.field) = <<>>
        ELSE TagBuffer(last.field) = last.raw

\* C13 (amended): add(raw) clears the input buffer exactly when raw is not
\* blank after trimming, whether it appends or finds the value present; a
\* blank raw leaves the buffer as it was.
C13_ClearsUnlessBlank ==
    Added =>
        IF trim(last.raw) # <<>>
        THEN TagBuffer(last.field) = <<>>
        ELSE TagBuffer(last.field) = last.raw

\* a value already present is added: the list is as it was, the buffer empty
C13_Witness ==
    /\ Added
    /\ last.raw = <<"a">>
    /\ \E j \in DOMAIN last.before : last.before[j] = <<"a">>
    /\ TagList(last.field) = last.before
    /\ TagBuffer(last.field) = <<>>

\* C14: remove(i) with i within range leaves the list without exactly its
\* element at i, the others in their order; with i negative or >= length it
\* leaves the list unchanged.
C14_RemoveAtIndex ==
    Removed =>
        IF InRange(last.before, last.raw)
        THEN IsRemovedAt(TagList(last.field), last.before, last.raw)
        ELSE TagList(last.field) = last.before

\* the first of two tags is removed
C14_Witness ==
    /\ Removed
    /\ Len(last.before) = 2
    /\ last.raw = 0
    /\ TagList(last.field) = <<last.before[2]>>

\* no entry of the list is blank and no two entries are equal
NoBlankNoRepeat(list) ==
    /\ \A j \in DOMAIN list : trim(list[j]) # <<>>
    /\ \A j, k \in DOMAIN list : list[j] = list[k] => j = k

\* C15 (as stated): the sequence a tag editor shows never holds a blank or a
\* repeated entry, whatever the form was opened on.
C15_VisibleTagsClean ==
    /\ (OnRouting /\ modalOpen) =>
           NoBlankNoRepeat(formData.models) /\ NoBlankNoRepeat(formData.order)
    /\ (OnRouting /\ bindingModalOpen) => NoBlankNoRepeat(bindingFormData.authIds)
    /\ (OnRateLimits /\ modalOpen) =>
           NoBlankNoRepeat(formData.allowedProviders) /\ NoBlankNoRepeat(formData.authIds)

\* the step taken is a press of the save button of the open form: it has
\* issued a request or reported an invalid form
Submitted == last.op \in {"issue", "invalid"}

\* C16: a submit of the rule form with an empty order, in add or edit mode,
\* issues no request, raises the validation error and leaves the rules as
\* they are.
C16_EmptyOrderRejected ==
    [][ (OnRouting /\ modalOpen /\ Len(formData.order) = 0 /\ Submitted') =>
            /\ last'.op = "invalid"
            /\ notification' = "error"
            /\ inflight' = inflight
            /\ rules' = rules
            /\ remote' = remote ]_vars

\* a rule opened for edit, with models and its order emptied, was submitted
C16_Witness ==
    /\ OnRouting /\ modalOpen
    /\ last.op = "invalid"
    /\ editingIndex # Null
    /\ formData.models # <<>>
    /\ Len(formData.order) = 0
    /\ notification = "error"

\* the text is not empty and has no space at either end
IsTrimmedKey(text) ==
    /\ text # <<>>
    /\ ~IsSpace(text[1])
    /\ ~IsSpace(text[Len(text)])

\* C17: a submit of the binding form issues no request when the api-key is
\* empty after trimming or the auth-ids are empty; every binding sent has a
\* non-empty trimmed api-key and at least one auth-id.
C17_BindingValidated ==
    [][ /\ ( /\ OnRouting /\ bindingModalOpen
             /\ trim(bindingFormData.apiKey) = <<>> \/ Len(bindingFormData.authIds) = 0
             /\ Submitted' ) =>
                (last'.op = "invalid" /\ inflight' = inflight)
        /\ IssuedLast({"addBinding", "updateBinding"})' =>
                /\ IsTrimmedKey(last'.req.body.api_key)
                /\ Len(last'.req.body.auth_ids) >= 1 ]_vars

\* a binding form with an api-key of spaces and one auth-id was submitted
C17_Witness ==
    /\ OnRouting /\ bindingModalOpen
    /\ last.op = "invalid"
    /\ bindingFormData.apiKey = <<" ">>
    /\ Len(bindingFormData.authIds) = 1

\* C18: a submit of the config form issues no request when the key is empty
\* after trimming; every config sent carries the trimmed key.
C18_ConfigKeyTrimmed ==
    [][ /\ (OnRateLimits /\ modalOpen /\ trim(formData.key) = <<>> /\ Submitted') =>
                (last'.op = "invalid" /\ inflight' = inflight)
        /\ IssuedLast({"addConfig", "updateConfig"})' =>
                /\ IsTrimmedKey(last'.req.body.key)
                /\ last'.req.body.key = trim(formData.key) ]_vars

\* a key typed with a space before it was sent without the space
C18_Witness ==
    /\ IssuedLast({"addConfig"})
    /\ formData.key = <<" ", "c">>
    /\ last.req.body.key = <<"c">>

\* the number a text of decimal digits denotes
RECURSIVE DecimalValue(_)
DecimalValue(text) ==
    IF text = <<>> THEN 0
    ELSE 10 * DecimalValue(SubSeq(text, 1, Len(text) - 1)) + DigitValue(text[Len(text)])

\* C19: the limits of the config sent hold exactly the fields whose input
\* was not blank, each with the number its input denotes ("0" is sent as 0),
\* and the config has no limits field iff the four inputs are blank.
C19_LimitsOfFilledInputs ==
    IssuedLast({"addConfig", "updateConfig"}) =>
        LET body   == last.req.body
            filled == {l \in LimitNames : formData[formFieldOf(l)] # <<>>} IN
        /\ ("limits" \in DOMAIN body) <=> (filled # {})
        /\ "limits" \in DOMAIN body =>
              /\ DOMAIN body.limits = filled
              /\ \A l \in filled : body.limits[l] = DecimalValue(formData[formFieldOf(l)])

\* a form with "0", "10" and two blank limit inputs was sent
C19_Witness ==
    /\ IssuedLast({"addConfig", "updateConfig"})
    /\ formData.requestsPerDay = <<"0">>
    /\ formData.requestsPerMonth = <<>>
    /\ formData.tokensPerDay = <<>>
    /\ formData.tokensPerMonth = <<"1", "0">>
    /\ last.req.body.limits = ("requests-per-day" :> 0) @@ ("tokens-per-month" :> 10)

\* C20: the PriorityRule a submit sends has the patterns of the draft, one
\* {pattern} record each in the same order, the models of the draft (an empty
\* list as well) and the fallback of the draft; the fallback of a draft is
\* off only from a press of its toggle or from a rule that had it off.
C20_RuleBuiltFromDraft ==
    [][ /\ IssuedLast({"addPriorityRule", "updatePriorityRule"})' =>
              /\ DOMAIN last'.req.body = {"models", "order", "fallback"}
              /\ Len(last'.req.body.order) = Len(formData.order)
              /\ \A j \in DOMAIN formData.order :
                    last'.req.body.order[j] = [pattern |-> formData.order[j]]
              /\ last'.req.body.models = formData.models
              /\ last'.req.body.fallback = formData.fallback
        /\ (OnRouting /\ modalOpen' /\ ~formData'.fallback) =>
              \/ modalOpen /\ ~formData.fallback
              \/ modalOpen /\ last'.op = "toggle"
              \/ /\ ~modalOpen
                 /\ "fallback" \in DOMAIN opened'.entity
                 /\ ~opened'.entity.fallback ]_vars

\* a new rule without models and with its fallback turned off was sent
C20_Witness ==
    /\ IssuedLast({"addPriorityRule"})
    /\ last.req.body.models = <<>>
    /\ last.req.body.order = <<[pattern |-> <<"a">>]>>
    /\ last.req.body.fallback = FALSE

\* the global config apart from its enabled field
OtherSettings(config) == without(config, "enabled")

\* C21: a toggle of enabled issues exactly one PUT, whose body is the local
\* rate-limiting config with enabled negated; the other fields of the local
\* config are those last loaded or saved, whatever the draft inputs hold; when
\* the PUT has succeeded only the enabled field of the local state changes.
C21_ToggleSendsSavedSettings ==
    [][ /\ IssuedLast({"toggleEnabled"})' =>
              /\ inflight' = Append(inflight, last'.req)
              /\ last'.req.body.enabled = ~rateLimiting.enabled
              /\ OtherSettings(last'.req.body) = OtherSettings(rateLimiting)
        /\ OtherSettings(rateLimiting') # OtherSettings(rateLimiting) =>
              \/ /\ SettledLast({"loadData"}, "ok")'
                 /\ rateLimiting' = last'.req.result.rate_limiting
              \/ /\ SettledLast({"saveGlobalSettings"}, "ok")'
                 /\ rateLimiting' = last'.req.body
        /\ SettledLast({"toggleEnabled"}, "ok")' =>
              /\ rateLimiting'.enabled = last'.req.body.enabled
              /\ OtherSettings(rateLimiting') = OtherSettings(rateLimiting)
              /\ UNCHANGED <<configs, usage, statusCodeInput, persistencePathInput>> ]_vars

\* a toggle is issued with the saved status code while the input holds another
C21_Witness ==
    /\ IssuedLast({"toggleEnabled"})
    /\ statusCodeInput = <<"5", "0", "0">>
    /\ last.req.body = [enabled |-> FALSE] @@ ("exceeded-status-code" :> 503)
                           @@ ("persistence-path" :> <<"d">>)

\* C22 (as stated): the global config a save submits has the status code
\* the input denotes, 429 when the input is blank; the trimmed path, no path
\* field when that is empty; the local enabled value; and when the save has
\* succeeded the local config is the one submitted.
C22_GlobalSaveParsesInput ==
    [][ /\ IssuedLast({"saveGlobalSettings"})' =>
              LET body == last'.req.body IN
              /\ body.enabled = rateLimiting.enabled
              /\ body["exceeded-status-code"] =
                    IF statusCodeInput = <<>> THEN 429 ELSE DecimalValue(statusCodeInput)
              /\ ("persistence-path" \in DOMAIN body) <=> (trim(persistencePathInput) # <<>>)
              /\ "persistence-path" \in DOMAIN body =>
                    body["persistence-path"] = trim(persistencePathInput)
        /\ SettledLast({"saveGlobalSettings"}, "ok")' => rateLimiting' = last'.req.body ]_vars

\* C25: when a reset of key k has succeeded the local usage map loses the
\* entry of k and no other, and the configs are as they were; when it has
\* failed the usage map is as it was.
C25_ResetDropsOneEntry ==
    [][ /\ SettledLast({"resetUsage"}, "ok")' =>
              /\ DOMAIN usage' = DOMAIN usage \ {last'.req.index}
              /\ \A k \in DOMAIN usage' : usage'[k] = usage[k]
              /\ configs' = configs
        /\ SettledLast({"resetUsage"}, "fail")' =>
              (usage' = usage /\ configs' = configs) ]_vars

\* the usage of one of two metered keys was reset
C25_Witness ==
    /\ SettledLast({"resetUsage"}, "ok")
    /\ last.req.index = <<"a">>
    /\ usage = (<<"b">> :> UsageB)
    /\ configs = <<ConfigA, ConfigB>>

\* C26: when loadData has ended, each slice whose fetch failed holds its
\* default (no configs; enabled with the status code input "429" and an empty
\* path input; no usage) and each slice whose fetch succeeded holds what the
\* store returned, for every subset of failing fetches.
C26_LoadToleratesFailures ==
    SettledLast({"loadData"}, "ok") =>
        LET res == last.req.result IN
        /\ ~loading
        /\ configs = IF "configs" \in res.failed THEN <<>> ELSE res.api_key_configs
        /\ usage = IF "usage" \in res.failed THEN <<>> ELSE res.usage
        /\ rateLimiting =
              IF "rateLimiting" \in res.failed THEN [enabled |-> TRUE] ELSE res.rate_limiting
        /\ "rateLimiting" \in res.failed =>
              (statusCodeInput = <<"4", "2", "9">> /\ persistencePathInput = <<>>)

\* the fetch of the global config alone failed, over a store with every slice set
C26_Witness ==
    /\ SettledLast({"loadData"}, "ok")
    /\ last.req.result.failed = {"rateLimiting"}
    /\ configs = <<ConfigA, ConfigB>>
    /\ rateLimiting = [enabled |-> TRUE]
    /\ DOMAIN usage = {<<"a">>, <<"b">>}

\* C27 (as stated): when a load of which every fetch failed has ended, the
\* page-level error is set and no notification was raised for it.
C27_FailedLoadSetsError ==
    /\ (OnRouting /\ SettledLast({"getConfig"}, "fail")) => error # ""
    /\ (OnRateLimits /\ SettledLast({"loadData"}, "ok") /\ last.req.result.failed = Fetches) =>
           error # ""

\* the config rows that have a usage entry, once the cards are rendered
MeteredRows == {j \in DOMAIN configs : ~loading /\ has(usage, configs[j].key)}

\* C23 (as stated): getUsagePercent(used, limit) is 0 when the limit is absent
\* or zero; otherwise it is 100 when used / limit * 100 rounds to 100 or more,
\* 0 when it rounds to 0 or less, and the nearest integer in between; it is
\* always between 0 and 100.
C23_PercentWithinBounds ==
    \A j \in MeteredRows :
        LET used    == usage[configs[j].key].requests_today
            limit   == requestsPerDayOf(configs[j])
            percent == usageBar(configs[j]).percent IN
        /\ percent \in 0..100
        /\ limit \in {Null, 0} => percent = 0
        /\ limit \notin {Null, 0} =>
              CASE 200 * used >= 199 * limit -> percent = 100
                [] 200 * used < limit        -> percent = 0
                [] OTHER -> /\ 2 * (100 * used - percent * limit) <= limit
                            /\ 2 * (percent * limit - 100 * used) < limit

\* C24: the class of a usage bar is high iff its percent is >= 90, medium
\* iff it is >= 70 and < 90, low otherwise; 450 used of a limit of 500 is 90
\* percent and high.
C24_TierOfPercent ==
    \A j \in MeteredRows :
        LET bar == usageBar(configs[j]) IN
        /\ bar.class = "high" <=> bar.percent >= 90
        /\ bar.class = "medium" <=> (bar.percent >= 70 /\ bar.percent < 90)
        /\ bar.class = "low" <=> bar.percent < 70
        /\ ( /\ usage[configs[j].key].requests_today = 450
             /\ requestsPerDayOf(configs[j]) = 500 ) =>
               (bar.percent = 90 /\ bar.class = "high")

\* the row of 450 requests against a limit of 500 is rendered
C24_Witness ==
    /\ MeteredRows = {1}
    /\ usage[configs[1].key].requests_today = 450
    /\ requestsPerDayOf(configs[1]) = 500
    /\ usageBar(configs[1]) = [percent |-> 90, class |-> "high"]

\* C28: when a load of the routing page has succeeded, the local strategy is
\* the strategy of the store (round-robin when absent), the local rules are
\* its priority list in order and the local bindings its bindings (empty when
\* absent); one strategy option is active, there is one row per rule, and a
\* row has the default label iff the rule has no models.
C28_LoadShowsStore ==
    SettledLast({"getConfig"}, "ok") =>
        LET res == last.req.result IN
        /\ strategy = IF "strategy" \in DOMAIN res THEN res.strategy ELSE "round-robin"
        /\ rules = IF "priority" \in DOMAIN res THEN res.priority ELSE <<>>
        /\ bindings = IF "bindings" \in DOMAIN res THEN res.bindings ELSE <<>>
        /\ Cardinality(activeOptions) = 1
        /\ Len(ruleRows) = Len(rules)
        /\ \A j \in DOMAIN rules : (ruleRows[j].label = "default") <=> (rules[j].models = <<>>)

\* a config with a priority list of one default rule and nothing else was loaded
C28_Witness ==
    /\ SettledLast({"getConfig"}, "ok")
    /\ last.req.result = RemoteFresh
    /\ activeOptions = {"round-robin"}
    /\ Len(ruleRows) = 1
    /\ ruleRows[1].label = "default"
    /\ bindings = <<>>

\* C29: a strategy change issues one PUT carrying the strategy selected,
\* which is never the active one; the local strategy changes to it only when
\* the PUT has succeeded (or by a load); the issue and the end of a strategy
\* change leave the rules and the bindings as they are.
C29_StrategyChangeAtomic ==
    [][ /\ IssuedLast({"updateStrategy"})' =>
              /\ inflight' = Append(inflight, last'.req)
              /\ last'.req.body \in RoutingStrategy \ {strategy}
              /\ UNCHANGED <<strategy, rules, bindings>>
        /\ strategy' # strategy =>
              \/ SettledLast({"updateStrategy"}, "ok")' /\ strategy' = last'.req.body
              \/ SettledLast({"getConfig"}, "ok")'
        /\ SettledLast({"updateStrategy"}, "ok")' =>
              (strategy' = last'.req.body /\ UNCHANGED <<rules, bindings>>)
        /\ SettledLast({"updateStrategy"}, "fail")' =>
              UNCHANGED <<strategy, rules, bindings>> ]_vars

\* a change to fill-first has succeeded
C29_Witness ==
    /\ SettledLast({"updateStrategy"}, "ok")
    /\ last.req.body = "fill-first"
    /\ last.req.at.strategy = "round-robin"
    /\ strategy = "fill-first"
    /\ Len(rules) = 1

\* the mutating requests among those in flight
MutatingInFlight(requests) == SelectSeq(requests, LAMBDA r : r.kind \in Mutating)

\* C30: the requests in flight grow only by the step of a user action, by
\* the one request it issues; the step in which a handler resumes, after a
\* success or a failure, takes its request off and sends nothing; the store
\* serving a request adds none.
C30_OneRequestPerAction ==
    [][ /\ Len(MutatingInFlight(inflight')) > Len(MutatingInFlight(inflight)) =>
              /\ IssuedLast(Mutating)'
              /\ inflight' = Append(inflight, last'.req)
              /\ issued' = issued + 1
        /\ last'.op = "settle" =>
              /\ Len(inflight') = Len(inflight) - 1
              /\ issued' = issued
              /\ \A j \in DOMAIN inflight' : \E k \in DOMAIN inflight :
                    /\ inflight'[j].kind = inflight[k].kind
                    /\ inflight'[j].phase = inflight[k].phase
        /\ (last'.op \notin {"issue", "settle"}) =>
              /\ Len(inflight') = Len(inflight)
              /\ issued' = issued ]_vars

\* a mutating request has failed and nothing is in flight
C30_Witness ==
    /\ SettledLast(Mutating, "fail")
    /\ inflight = <<>>
    /\ issued < budget

\* C31 (as stated): when a request of a page the operator has left resolves,
\* with success or with failure, nothing the operator can observe changes:
\* neither the data of the pages nor the notification store of the session.
C31_AbandonedRequestSilent ==
    [][ last'.op = "orphan" =>
            /\ notification' = notification
            /\ UNCHANGED <<pageVars, routingData, ruleModal, bindModal, rateLimitsOnly>> ]_vars

\* the elements of a list
Elements(list) == {list[j] : j \in DOMAIN list}

\* The request that has just succeeded was an update or a delete by index, and
\* the element of the row the operator selected is still in the remote list
\* (an update carrying a value other than that element): the store replaced or
\* removed another element.  (Under SpecForeign the elements of a remote list
\* are distinct and only this request adds one.)
Mistargeted ==
    /\ last.op = "settle"
    /\ last.req.phase = "ok"
    /\ last.req.kind \in {"updatePriorityRule", "deletePriorityRule",
                          "updateBinding", "deleteBinding"}
    /\ LET req      == last.req
           onRules  == req.kind \in {"updatePriorityRule", "deletePriorityRule"}
           selected == IF onRules THEN req.at.rules[req.index + 1]
                       ELSE req.at.bindings[req.index + 1]
           remoteList == IF onRules THEN remote.priority ELSE remote.bindings
       IN /\ selected \in Elements(remoteList)
          /\ IF req.kind \in {"updatePriorityRule", "updateBinding"}
             THEN req.body # selected ELSE TRUE

\* C32: when a second session has changed the remote list between this
\* session's load and its update or delete by index, the request can succeed
\* on an element other than the one selected, and then the console reports
\* success as for any other request: the notification is the success one, no
\* error is set, and the local list is changed at the index selected.
C32_MistargetedReportedAsSuccess ==
    Mistargeted =>
        /\ notification = "success"
        /\ error = ""
        /\ ~saving
        /\ CASE last.req.kind = "updatePriorityRule" -> rules = rulesAfterSave(last.req)
             [] last.req.kind = "deletePriorityRule" -> rules = rulesAfterDelete(last.req)
             [] last.req.kind = "updateBinding" -> bindings = bindingsAfterSave(last.req)
             [] last.req.kind = "deleteBinding" -> bindings = bindingsAfterDelete(last.req)

\* an update by index has replaced an element other than the one edited
C32_Witness == Mistargeted /\ last.req.kind = "updatePriorityRule"

\* a load, a toggle or a global-settings save has just succeeded (a load with
\* none of its three fetches replaced by a default)
GlobalSettledOk ==
    /\ last.op = "settle"
    /\ last.req.phase = "ok"
    /\ last.req.kind \in {"loadData", "toggleEnabled", "saveGlobalSettings"}
    /\ IF last.req.kind = "loadData" THEN last.req.result.failed = {} ELSE TRUE

\* C33 (as stated, for the states a load, a toggle or a global-settings save
\* leaves when it succeeds): with the store mutated by this console only, in
\* every state in which no request is in flight the local rate-limiting
\* config equals the remote one.
C33_GlobalConfigAgreesWhenQuiet ==
    (OnRateLimits /\ GlobalSettledOk /\ inflight = <<>>) =>
        rateLimiting = remote.rate_limiting

\* C34 (as stated): saving is true in every state in which a mutating request
\* issued by the page is unresolved.
C34_SavingWhileMutating ==
    (\E n \in DOMAIN inflight : inflight[n].kind \in Mutating) => saving

formCells ==
    <<modalOpen, formData, editingIndex, editingKey,
      bindingModalOpen, bindingFormData, editingBindingIndex>>

\* the form saved by a call of the kind is closed: modal shut, draft blank,
\* editing target null
FormClosed(kind) ==
    CASE kind \in {"addPriorityRule", "updatePriorityRule"} ->
            ~modalOpen /\ formData = emptyRuleForm /\ editingIndex = Null
      [] kind \in {"addBinding", "updateBinding"} ->
            /\ ~bindingModalOpen
            /\ bindingFormData = emptyBindingForm
            /\ editingBindingIndex = Null
      [] kind \in {"addConfig", "updateConfig"} ->
            ~modalOpen /\ formData = emptyConfigForm /\ editingKey = NoKey

FormOpen(kind) ==
    IF kind \in {"addBinding", "updateBinding"} THEN bindingModalOpen ELSE modalOpen

\* the request the save Button of the form would issue now
RetryOf(kind) ==
    CASE kind \in {"addPriorityRule", "updatePriorityRule"} -> saveRuleRequest
      [] kind \in {"addBinding", "updateBinding"} -> saveBindingRequest
      [] kind \in {"addConfig", "updateConfig"} -> saveConfigRequest

\* the request settled last could be issued again as it was
RetrySame ==
    /\ FormOpen(last.req.kind)
    /\ RetryOf(last.req.kind).kind = last.req.kind
    /\ RetryOf(last.req.kind).index = last.req.index
    /\ RetryOf(last.req.kind).body = last.req.body

SavedFormClosed == FormClosed(last.req.kind)

\* C36: a save closes its modal and resets the draft and the editing target
\* when the call has succeeded, and only then; when the call has failed or
\* the form is rejected by validation, the modal stays open, the draft and
\* the editing target are as they were, and the save Button would issue the
\* same request again.
C36_ClosesOnSuccessOnly ==
    [][ /\ SettledLast(Saves, "ok")' => SavedFormClosed'
        /\ SettledLast(Saves, "fail")' => (UNCHANGED formCells /\ RetrySame')
        /\ last'.op = "invalid" =>
              /\ UNCHANGED formCells
              /\ modalOpen' \/ bindingModalOpen'
        /\ (last'.op \in {"settle", "invalid"} /\ formCells' # formCells) =>
              SettledLast(Saves, "ok")' ]_vars

\* a save of an edited entity has failed and the modal is still open on it
C36_Witness ==
    /\ SettledLast({"updatePriorityRule", "updateBinding", "updateConfig"}, "fail")
    /\ FormOpen(last.req.kind)
    /\ ~FormClosed(last.req.kind)

\* C37: the save of a form opened by edit on row i, row 0 included, issues
\* the replace at index i and never an append; the save of a form opened by
\* add issues the append and never a replace.
C37_EditReplacesAddAppends ==
    /\ IssuedLast({"addPriorityRule", "updatePriorityRule"}) =>
          IF opened.index # Null
          THEN last.req.kind = "updatePriorityRule" /\ last.req.index = opened.index
          ELSE last.req.kind = "addPriorityRule"
    /\ IssuedLast({"addBinding", "updateBinding"}) =>
          IF opened.index # Null
          THEN last.req.kind = "updateBinding" /\ last.req.index = opened.index
          ELSE last.req.kind = "addBinding"

\* the form opened on the first row has been saved
C37_Witness ==
    /\ IssuedLast({"updatePriorityRule", "updateBinding"})
    /\ opened.index = 0
    /\ last.req.index = 0

\* the fallback a round trip must submit for the entity: true unless the
\* entity's fallback is exactly false
FallbackOf(entity) ==
    IF "fallback" \in DOMAIN entity THEN entity.fallback ELSE TRUE

\* C38 (as stated): a rule with a non-empty order, or a binding with a
\* non-empty api-key and auth-ids, that is opened for edit and saved without a
\* change is submitted with the same models and the same patterns in the same
\* order (the same api-key and auth-ids for a binding), and with fallback true
\* unless the fallback of the original was false.
C38_EditRoundTrip ==
    /\ (OnRouting /\ last.op = "invalid") => FALSE
    /\ IssuedLast({"updatePriorityRule"}) =>
          /\ last.req.body.models = opened.entity.models
          /\ patternsOf(last.req.body.order) = patternsOf(opened.entity.order)
          /\ last.req.body.fallback = FallbackOf(opened.entity)
    /\ IssuedLast({"updateBinding"}) =>
          /\ last.req.body.api_key = opened.entity.api_key
          /\ last.req.body.auth_ids = opened.entity.auth_ids
          /\ last.req.body.fallback = FallbackOf(opened.entity)

\* the step is the call or the return of a handler of one of the kinds
HandlerStep(kinds) == last.op \in {"issue", "settle"} /\ last.req.kind \in kinds

\* C39: each mutation changes its own slice of the local state only.  The
\* create, update and delete of a rule leave strategy and bindings as they
\* are; those of a binding leave strategy and rules; those of a key config
\* leave the usage map and the global rate-limiting config; the toggle and
\* the global-settings save leave configs and usage.
C39_MutationsKeepOtherSlices ==
    [][ /\ HandlerStep({"addPriorityRule", "updatePriorityRule", "deletePriorityRule"})' =>
              UNCHANGED <<strategy, bindings>>
        /\ HandlerStep({"addBinding", "updateBinding", "deleteBinding"})' =>
              UNCHANGED <<strategy, rules>>
        /\ HandlerStep({"addConfig", "updateConfig", "deleteConfig"})' =>
              UNCHANGED <<usage, rateLimiting>>
        /\ HandlerStep({"toggleEnabled", "saveGlobalSettings"})' =>
              UNCHANGED <<configs, usage>> ]_vars

\* the config of a key has been deleted and the usage of the key is still shown
C39_Witness ==
    /\ SettledLast({"deleteConfig"}, "ok")
    /\ ~HasKey(configs, last.req.index)
    /\ last.req.index \in DOMAIN usage

\* C40 (as stated): a toggle of enabled, succeeding or failing, leaves the
\* two draft inputs as they are, so that a global-settings save after the
\* toggle submits the status code and the path the operator has typed (429
\* for a blank code, no path for a blank one) with the enabled value the
\* toggle has left.
C40_ToggleKeepsDraft ==
    [][ /\ HandlerStep({"toggleEnabled"})' =>
              UNCHANGED <<statusCodeInput, persistencePathInput>>
        /\ SettledLast({"toggleEnabled"}, "ok")' =>
              newGlobalConfig'.enabled = last'.req.body.enabled
        /\ SettledLast({"toggleEnabled"}, "fail")' =>
              newGlobalConfig'.enabled = rateLimiting.enabled
        /\ (last'.op = "settle" /\ last'.req.kind = "toggleEnabled") =>
              /\ newGlobalConfig'["exceeded-status-code"] =
                    IF statusCodeInput = <<>> THEN 429 ELSE DecimalValue(statusCodeInput)
              /\ ("persistence-path" \in DOMAIN newGlobalConfig') <=>
                    (trim(persistencePathInput) # <<>>)
              /\ "persistence-path" \in DOMAIN newGlobalConfig' =>
                    newGlobalConfig'["persistence-path"] = trim(persistencePathInput)
        /\ IssuedLast({"saveGlobalSettings"})' => last'.req.body = newGlobalConfig ]_vars

====
